---- MODULE Spec2Model ----
(***************************************************************************)
(* Model of the POI acquisition pipeline of augmented-wiki                 *)
(* (src/src/core/poi-detector.js): cache, request coalescing, rate limit,  *)
(* retry with exponential backoff, request timeout, record parsing.        *)
(*                                                                         *)
(* Time is in milliseconds.  The program reads the clock only to take      *)
(* differences (Date.now() - this.lastRequestTime, Date.now() - timestamp) *)
(* and to arm timers, so the model keeps every timestamp and deadline      *)
(* relative to the current instant: Now is 0, a timestamp of the past is   *)
(* negative, a deadline of the future positive, and the passage of d ms    *)
(* subtracts d from all of them.  A timestamp older than the largest       *)
(* threshold it is compared with is kept at that threshold.                *)
(* Latitudes and longitudes are                                            *)
(* integers counting 1/10000 of a degree, so that 48.5 is 485000 and the   *)
(* 3-decimal rounding of _getCacheKey is a rounding to a multiple of 10.   *)
(* An optional JavaScript value is a sequence: <<>> for undefined/null and *)
(* <<v>> for the value v.  A string that the code splits on ':' is the     *)
(* sequence of its colon-separated parts; the empty string is <<"">>.      *)
(***************************************************************************)
EXTENDS Integers, Sequences, FiniteSets, TLC

----------------------------------------------------------------------------
(* Program constants, poi-detector.js lines 16-24.                         *)

DEFAULT_SEARCH_RADIUS == 5000

CACHE_DURATION == 300000

REQUEST_TIMEOUT == 10000

MIN_REQUEST_INTERVAL == 1000

MAX_RETRIES == 3

RETRY_DELAY_BASE == 2000

----------------------------------------------------------------------------
(* Bounds of the model.                                                    *)

\* Number of fetchNearbyPOIs calls in a behaviour without provider failures.
MaxCalls == 2

\* Number of failed provider attempts in a behaviour of a single call.
MaxFailures == 4

\* Number of fetchNearbyPOIs calls in a behaviour of SpecBurst.
BurstCalls == 3

\* The behaviours explored by Spec: MaxCalls calls that the provider answers
\* without failure, two calls with one failed attempt among them, or one
\* call with up to MaxFailures failed attempts.
Budgets ==
    { [calls |-> MaxCalls, failures |-> 0],
      [calls |-> 2, failures |-> 1],
      [calls |-> 1, failures |-> MaxFailures] }

----------------------------------------------------------------------------
(* Inputs.                                                                 *)

\* Arguments <<lat, lng, radius>> of fetchNearbyPOIs.  The first two lie in
\* the same 3-decimal cell (48.5, 2.3), the third in another cell, the
\* fourth in the first cell with another radius; the rest are invalid.
ValidInputs ==
    { <<485000, 23000, 5000>>, <<484996, 23000, 5000>>,
      <<485020, 23000, 5000>>, <<485000, 23000, 100000>> }

InvalidInputs ==
    { <<900001, 23000, 5000>>, <<485000, -1800001, 5000>>,
      <<485000, 23000, 0>>, <<485000, 23000, 100001>> }

CallInputs == ValidInputs \cup InvalidInputs

\* HTTP statuses the provider answers with.
Statuses == {200, 404, 405, 429, 500}

\* Messages of the TypeError a failed fetch() rejects with (Chrome, Safari).
NetworkMessages == {"Failed to fetch", "Load failed"}

\* Provider records (Overpass elements).
ElemNear ==
    [type |-> "way", id |-> 2, lat |-> <<>>, lon |-> <<>>,
     center |-> << [lat |-> <<485050>>, lon |-> <<23010>>] >>,
     tags |-> << <<"name", <<"Near">> >>, <<"wikidata", <<"Q2">> >> >>]

ElemFar ==
    [type |-> "node", id |-> 1, lat |-> <<485100>>, lon |-> <<23000>>,
     center |-> <<>>,
     tags |-> << <<"name", <<"Far">> >>, <<"wikipedia", <<"en", "Far">> >> >>]

ElemNoRef ==
    [type |-> "node", id |-> 3, lat |-> <<485030>>, lon |-> <<22990>>,
     center |-> <<>>,
     tags |-> << <<"name", <<"NoRef">> >> >>]

\* The element lists (data.elements) of the provider's 200 responses.
Bodies == { <<ElemFar, ElemNear, ElemNoRef>>, <<ElemNear>> }

\* Malformed provider records: without tags, without coordinates, with a
\* latitude of 91 degrees.
ElemNoTags ==
    [type |-> "node", id |-> 4, lat |-> <<485030>>, lon |-> <<22990>>,
     center |-> <<>>, tags |-> <<>>]

ElemNoCoordinates ==
    [type |-> "relation", id |-> 5, lat |-> <<>>, lon |-> <<>>,
     center |-> <<>>,
     tags |-> << <<"name", <<"Lost">> >>, <<"wikidata", <<"Q5">> >> >>]

ElemOutOfRange ==
    [type |-> "node", id |-> 6, lat |-> <<910000>>, lon |-> <<23000>>,
     center |-> <<>>,
     tags |-> << <<"name", <<"Off">> >>, <<"wikidata", <<"Q6">> >> >>]

\* Element lists that hold malformed records among well-formed ones.
MalformedBodies ==
    { <<ElemNoTags, ElemFar, ElemNoCoordinates, ElemNear, ElemNoRef>>,
      <<ElemNear, ElemOutOfRange>>,
      <<ElemOutOfRange>> }

----------------------------------------------------------------------------
(* Geodesy, src/src/utils/coordinates.js.                                  *)

\* The haversine distance in centimetres of the coordinate pairs the model
\* uses, computed with the formula of calculateDistance (lines 68-82).
HaversineCm(lat1, lng1, lat2, lng2) ==
    CASE <<lat1, lng1, lat2, lng2>> = <<485000, 23000, 485100, 23000>> -> 111195
      [] <<lat1, lng1, lat2, lng2>> = <<485000, 23000, 485050, 23010>> -> 56084
      [] <<lat1, lng1, lat2, lng2>> = <<485000, 23000, 485030, 22990>> -> 34162
      [] <<lat1, lng1, lat2, lng2>> = <<484996, 23000, 485100, 23000>> -> 115643
      [] <<lat1, lng1, lat2, lng2>> = <<484996, 23000, 485050, 23010>> -> 60496
      [] <<lat1, lng1, lat2, lng2>> = <<484996, 23000, 485030, 22990>> -> 38518
      [] <<lat1, lng1, lat2, lng2>> = <<485020, 23000, 485100, 23000>> -> 88956
      [] <<lat1, lng1, lat2, lng2>> = <<485020, 23000, 485050, 23010>> -> 34162
      [] <<lat1, lng1, lat2, lng2>> = <<485020, 23000, 485030, 22990>> -> 13339

\* calculateDistance: [ok |-> FALSE] when it throws, else the distance.
calculateDistance(lat1, lng1, lat2, lng2) ==
    IF lat1 < -900000 \/ lat1 > 900000 \/ lat2 < -900000 \/ lat2 > 900000
    THEN [ok |-> FALSE, cm |-> 0]
    ELSE IF lat1 = lat2 /\ lng1 = lng2
         THEN [ok |-> TRUE, cm |-> 0]
         ELSE [ok |-> TRUE, cm |-> HaversineCm(lat1, lng1, lat2, lng2)]

\* The forward azimuth in hundredths of a degree, computed with the formula
\* of calculateBearing (lines 114-124) for the pairs the model uses.
BearingCdeg(lat1, lng1, lat2, lng2) ==
    CASE <<lat1, lng1, lat2, lng2>> = <<485000, 23000, 485100, 23000>> -> 0
      [] <<lat1, lng1, lat2, lng2>> = <<485000, 23000, 485050, 23010>> -> 755
      [] <<lat1, lng1, lat2, lng2>> = <<485000, 23000, 485030, 22990>> -> 34755
      [] <<lat1, lng1, lat2, lng2>> = <<484996, 23000, 485100, 23000>> -> 0
      [] <<lat1, lng1, lat2, lng2>> = <<484996, 23000, 485050, 23010>> -> 699
      [] <<lat1, lng1, lat2, lng2>> = <<484996, 23000, 485030, 22990>> -> 34897
      [] <<lat1, lng1, lat2, lng2>> = <<485020, 23000, 485100, 23000>> -> 0
      [] <<lat1, lng1, lat2, lng2>> = <<485020, 23000, 485050, 23010>> -> 1245
      [] <<lat1, lng1, lat2, lng2>> = <<485020, 23000, 485030, 22990>> -> 32647

calculateBearing(lat1, lng1, lat2, lng2) ==
    IF lat1 < -900000 \/ lat1 > 900000 \/ lat2 < -900000 \/ lat2 > 900000
    THEN [ok |-> FALSE, cdeg |-> 0]
    ELSE IF lat1 = lat2 /\ lng1 = lng2
         THEN [ok |-> TRUE, cdeg |-> 0]
         ELSE [ok |-> TRUE, cdeg |-> BearingCdeg(lat1, lng1, lat2, lng2)]

\* Math.round of a non-negative quantity given in 1/unit.
MathRound(x, unit) == (2 * x + unit) \div (2 * unit)

----------------------------------------------------------------------------
(* Record parsing, POIDetector._parseElement and the pipeline of           *)
(* fetchNearbyPOIs lines 296-300.                                          *)

\* JavaScript truthiness of an optional number and of an optional string.
TruthyNum(o) == o # <<>> /\ o[1] # 0

TruthyStr(o) == o # <<>> /\ o[1] # <<"">>

\* a || b on optional numbers.
OrNum(a, b) == IF TruthyNum(a) THEN a ELSE b

\* tags[key]: <<>> when the key is absent, else <<value>> (first match).
TagGet(tags, key) ==
    LET hits == { i \in 1..Len(tags) : tags[i][1] = key }
    IN  IF hits = {} THEN <<>>
        ELSE << tags[CHOOSE i \in hits : \A j \in hits : i <= j][2] >>

\* The tag keys of the model that start with 'wikipedia:'.
LangWikiKeys == {"wikipedia:en", "wikipedia:de", "wikipedia:fr"}

\* Object.keys(tags).filter(k => k.startsWith('wikipedia:')), in key order.
WikiKeys(tags) == SelectSeq([i \in 1..Len(tags) |-> tags[i][1]],
                            LAMBDA k : k \in LangWikiKeys)

\* Lines 184-208: the wikipedia title, <<>> for null.
WikipediaTitle(tags) ==
    LET w == TagGet(tags, "wikipedia")
        direct == IF TruthyStr(w)
                  THEN IF Len(w[1]) >= 2 THEN << Tail(w[1]) >> ELSE w
                  ELSE <<>>
        keys == WikiKeys(tags)
        keyToUse == IF \E i \in 1..Len(keys) : keys[i] = "wikipedia:en"
                    THEN "wikipedia:en" ELSE keys[1]
    IN  IF TruthyStr(direct) THEN direct
        ELSE IF Len(keys) > 0 THEN TagGet(tags, keyToUse)
        ELSE direct

\* Lines 211-213: the wikidata id, <<>> for null.
WikidataId(tags) ==
    LET w == TagGet(tags, "wikidata") IN IF TruthyStr(w) THEN w ELSE <<>>

\* _parseElement: [threw |-> TRUE] when calculateDistance or calculateBearing
\* throws; otherwise poi is <<>> (null) or <<the POI>>.
parseElement(element, userLat, userLng) ==
    LET tags == element.tags
        clat == IF element.center = <<>> THEN <<>> ELSE element.center[1].lat
        clon == IF element.center = <<>> THEN <<>> ELSE element.center[1].lon
        lat == OrNum(clat, element.lat)
        lng == OrNum(clon, element.lon)
        title == WikipediaTitle(tags)
        wikidata == WikidataId(tags)
    IN  IF ~TruthyNum(lat) \/ ~TruthyNum(lng)
        THEN [threw |-> FALSE, poi |-> <<>>]
        ELSE IF ~TruthyStr(title) /\ ~TruthyStr(wikidata)
        THEN [threw |-> FALSE, poi |-> <<>>]
        ELSE LET d == calculateDistance(userLat, userLng, lat[1], lng[1])
                 b == calculateBearing(userLat, userLng, lat[1], lng[1])
                 name == TagGet(tags, "name")
             IN  IF ~d.ok \/ ~b.ok
                 THEN [threw |-> TRUE, poi |-> <<>>]
                 ELSE [threw |-> FALSE,
                       poi |-> << [id |-> <<element.type, element.id>>,
                                   name |-> IF TruthyStr(name) THEN name[1]
                                            ELSE <<"Unknown">>,
                                   lat |-> lat[1],
                                   lng |-> lng[1],
                                   distance |-> MathRound(d.cm, 100),
                                   bearing |-> MathRound(b.cdeg, 100),
                                   wikipediaTitle |-> title,
                                   wikidataId |-> wikidata,
                                   type |-> element.type] >>]

\* Insertion of a POI into a list sorted by distance, after its equals
\* (Array.prototype.sort is stable).
RECURSIVE InsertByDistance(_, _)
InsertByDistance(poi, sorted) ==
    IF sorted = <<>> THEN <<poi>>
    ELSE IF poi.distance < Head(sorted).distance THEN <<poi>> \o sorted
    ELSE <<Head(sorted)>> \o InsertByDistance(poi, Tail(sorted))

\* Variant of SortByDistance that leaves the list in the provider's order.
Unsorted(pois) == pois

\* .sort((a, b) => a.distance - b.distance)
RECURSIVE SortByDistance(_)
SortByDistance(pois) ==
    IF pois = <<>> THEN <<>>
    ELSE InsertByDistance(pois[Len(pois)],
                          SortByDistance(SubSeq(pois, 1, Len(pois) - 1)))

\* Lines 297-300: map(_parseElement).filter(non-null).sort(by distance).
\* [threw |-> TRUE] when a record makes _parseElement throw.
ParsePOIs(elements, userLat, userLng) ==
    LET parsed == [i \in 1..Len(elements) |->
                      parseElement(elements[i], userLat, userLng)]
        kept == SelectSeq(parsed, LAMBDA r : r.poi # <<>>)
    IN  IF \E i \in 1..Len(parsed) : parsed[i].threw
        THEN [threw |-> TRUE, pois |-> <<>>]
        ELSE [threw |-> FALSE,
              pois |-> SortByDistance([i \in 1..Len(kept) |-> kept[i].poi[1]])]

----------------------------------------------------------------------------
(* Cache key, cache validity, input validation, error classification.      *)

\* Variant of RoundMilli that truncates (Math.floor for Math.round).
FloorMilli(x) == x \div 10

\* Math.round(x * 1000) for x in 1/10000 degree: the nearest integer, a half
\* rounding up (towards +Infinity).
RoundMilli(x) == (x + 5) \div 10

\* _getCacheKey
getCacheKey(lat, lng, radius) == <<RoundMilli(lat), RoundMilli(lng), radius>>

\* Variant of isCacheValid that still accepts an entry aged CACHE_DURATION.
isCacheValidInclusive(cachedData, t) ==
    t - cachedData.timestamp <= CACHE_DURATION

\* _isCacheValid, for an entry that exists, at time t.
isCacheValid(cachedData, t) == t - cachedData.timestamp < CACHE_DURATION

\* Variant of ValidInput that lets a radius of 0 pass (radius < 0 for
\* radius <= 0 in line 268).
ValidInputLoose(lat, lng, radius) ==
    /\ lat >= -900000 /\ lat <= 900000
    /\ lng >= -1800000 /\ lng <= 1800000
    /\ radius >= 0 /\ radius <= 100000

\* The argument checks of fetchNearbyPOIs, lines 259-270 (the arguments of
\* the model are numbers).
ValidInput(lat, lng, radius) ==
    /\ ~(lat < -900000 \/ lat > 900000)
    /\ ~(lng < -1800000 \/ lng > 1800000)
    /\ ~(radius <= 0 \/ radius > 100000)

\* The message of the error fetchNearbyPOIs throws for invalid arguments.
InputError(lat, lng, radius) ==
    IF lat < -900000 \/ lat > 900000
    THEN [name |-> "Error", text |-> "Latitude must be between -90 and 90",
          status |-> 0]
    ELSE IF lng < -1800000 \/ lng > 1800000
    THEN [name |-> "Error", text |-> "Longitude must be between -180 and 180",
          status |-> 0]
    ELSE [name |-> "Error",
          text |-> "Radius must be between 0 and 100000 meters", status |-> 0]

NoError == [name |-> "", text |-> "", status |-> 0]

\* The error thrown for a response that is not ok, lines 129-135.
StatusError(status) ==
    IF status = 429 \/ status >= 500
    THEN [name |-> "Error", text |-> "Overpass API error: ", status |-> status]
    ELSE [name |-> "Error", text |-> "HTTP error: ", status |-> status]

AbortError == [name |-> "AbortError", text |-> "The operation was aborted",
               status |-> 0]

NetworkError(msg) == [name |-> "TypeError", text |-> msg, status |-> 0]

JsonError == [name |-> "SyntaxError", text |-> "Unexpected token", status |-> 0]

LatitudeError == [name |-> "Error",
                  text |-> "Latitude must be between -90 and 90 degrees",
                  status |-> 0]

\* error.message.includes(needle), for the messages above; the status, when
\* there is one, is the decimal number that ends the message.
MessageIncludes(error, needle) ==
    CASE needle = "429" -> error.status = 429
      [] needle = "5" ->
            \/ error.status % 10 = 5
            \/ (error.status \div 10) % 10 = 5
            \/ (error.status \div 100) % 10 = 5
      [] needle = "network" -> FALSE
      [] needle = "fetch" -> error.text = "Failed to fetch"

\* isRetriableError, lines 146-151.
isRetriableError(error) ==
    \/ error.name = "AbortError"
    \/ MessageIncludes(error, "429")
    \/ MessageIncludes(error, "5")
    \/ MessageIncludes(error, "network")
    \/ MessageIncludes(error, "fetch")

\* 2^n
RECURSIVE Pow2(_)
Pow2(n) == IF n = 0 THEN 1 ELSE 2 * Pow2(n - 1)

\* Variant of RetryDelay without the doubling.
RetryDelayFlat(retryCount) == RETRY_DELAY_BASE

\* The backoff delay, line 154.
RetryDelay(retryCount) == RETRY_DELAY_BASE * Pow2(retryCount)

\* The catch block's decision to retry, lines 145-158.
ShouldRetry(error, retryCount) ==
    retryCount < MAX_RETRIES /\ isRetriableError(error)


----------------------------------------------------------------------------
(* State.                                                                  *)

VARIABLES
    cache,            \* this.cache: cache key -> [pois, timestamp]
    lastRequestTime,  \* this.lastRequestTime
    pendingRequests,  \* this.pendingRequests: cache key -> request promise
    requests,         \* the unsettled request promises of line 288, by id
    settled,          \* the request promise the last event but calls settled
    burst,            \* the valid calls made since the last other event
    lastCall,         \* the call the last event made, if any
    ncalls,           \* the number of fetchNearbyPOIs calls so far
    failures,         \* the number of failed provider attempts so far
    successes,        \* the fetches that succeeded and were not purged since
    lastIssuedAt,     \* when the latest provider request was issued
    issueGap,         \* ms between the two latest provider requests, capped
    budget,           \* the calls and failed attempts the run may hold
    purged,           \* the cache keys that clearCache has removed so far
    attemptAge        \* ms since the running attempt of a request was issued

\* The state of the POIDetector and the record of its run.
detectorVars == <<cache, lastRequestTime, pendingRequests, requests, settled,
                  burst, lastCall, ncalls, failures, successes, lastIssuedAt,
                  issueGap, budget, purged>>

EmptyMap == [k \in {} |-> 0]

MapSet(m, key, value) ==
    [k \in DOMAIN m \cup {key} |-> IF k = key THEN value ELSE m[k]]

MapDelete(m, key) == [k \in DOMAIN m \ {key} |-> m[k]]

Min(a, b) == IF a < b THEN a ELSE b

Max(a, b) == IF a > b THEN a ELSE b

\* Date.now(): the current instant is the origin of the model's time.
Now == 0

\* The largest delays a timestamp is compared with.
MaxRetryDelay == RETRY_DELAY_BASE * Pow2(MAX_RETRIES)

\* A timestamp `ts` after d ms have passed, kept at -horizon when older.
Older(ts, d, horizon) == Max(ts - d, -horizon)

\* The program counters of an unsettled request: waiting in the timer of
\* _enforceRateLimit, awaiting fetch(), awaiting response.json(), waiting
\* for the backoff delay.
Live == {"rateWait", "fetching", "body", "backoff"}

\* The state after construction (lines 30-39); lastRequestTime is 0, the
\* epoch, which is long ago.
Constructed ==
    /\ cache = EmptyMap
    /\ lastRequestTime = -MIN_REQUEST_INTERVAL
    /\ pendingRequests = EmptyMap
    /\ requests = EmptyMap
    /\ settled = <<>>
    /\ burst = <<>>
    /\ lastCall = <<>>
    /\ ncalls = 0
    /\ failures = 0
    /\ successes = {}
    /\ lastIssuedAt = -MIN_REQUEST_INTERVAL
    /\ issueGap = MIN_REQUEST_INTERVAL
    /\ purged = {}

----------------------------------------------------------------------------
(* _enforceRateLimit and _fetchFromOverpass.                               *)

\* waitTime of _enforceRateLimit (lines 92-94) at time t; 0 for no wait.
WaitTime(t) ==
    IF t - lastRequestTime < MIN_REQUEST_INTERVAL
    THEN MIN_REQUEST_INTERVAL - (t - lastRequestTime)
    ELSE 0

\* Lines 110-123: the abort timer is armed and fetch() is issued at time t.
Issued(req, t) ==
    [req EXCEPT !.pc = "fetching",
                !.deadline = t + REQUEST_TIMEOUT,
                !.failedAt = -MaxRetryDelay,
                !.issued = @ + 1,
                !.lastStatus = 0]

\* _fetchFromOverpass(query, retryCount) entered at time t, up to its first
\* suspension: in the timer of _enforceRateLimit, or in fetch().
Entered(req, retryCount, t) ==
    IF WaitTime(t) > 0
    THEN [req EXCEPT !.pc = "rateWait", !.retryCount = retryCount,
                     !.deadline = t + WaitTime(t)]
    ELSE Issued([req EXCEPT !.retryCount = retryCount], t)

\* this.lastRequestTime after _fetchFromOverpass was entered at time t.
LastRequestTimeAfterEnter(t) ==
    IF WaitTime(t) > 0 THEN lastRequestTime ELSE t

\* The record of provider requests: one is issued at time t, or none.
IssueLogged(t) ==
    /\ lastIssuedAt' = t
    /\ issueGap' = Min(MIN_REQUEST_INTERVAL, t - lastIssuedAt)

NoIssue == UNCHANGED <<lastIssuedAt, issueGap>>

\* The running attempt of a request fails at time t with `status` (an HTTP
\* status, -1 for a network failure, -2 for an abort, -3 for a body that
\* is not JSON).
AttemptFailed(req, status, t) ==
    [req EXCEPT !.lastStatus = status,
                !.failedAt = t,
                !.only429 = @ /\ status = 429]

\* Variant of PendingAfterSettle for a promise without the finally block.
PendingKept(key) == pendingRequests

\* The finally block of the request promise, line 314.
PendingAfterSettle(key) == MapDelete(pendingRequests, key)

\* The request promise r settles at time t.
SettledAs(r, req, pc, elements, result, error, t) ==
    << [id |-> r, key |-> req.key, lat |-> req.lat, lng |-> req.lng,
        radius |-> req.radius, pc |-> pc, retryCount |-> req.retryCount,
        issued |-> req.issued,
        lastStatus |-> req.lastStatus, only429 |-> req.only429,
        elements |-> elements, result |-> result, error |-> error] >>

\* The catch block of _fetchFromOverpass (lines 141-163) for `error` caught
\* at time t: the backoff timer, or the rethrow that rejects the request
\* promise and runs its finally block.
Caught(r, req, error, t) ==
    IF ShouldRetry(error, req.retryCount)
    THEN /\ requests' = [requests EXCEPT ![r] =
                [req EXCEPT !.pc = "backoff",
                            !.deadline = t + RetryDelay(req.retryCount)]]
         /\ settled' = <<>>
         /\ UNCHANGED pendingRequests
    ELSE /\ requests' = MapDelete(requests, r)
         /\ settled' = SettledAs(r, req, "rejected", <<>>, <<>>, error, t)
         /\ pendingRequests' = PendingAfterSettle(req.key)

\* A provider attempt fails: the budget of the model.
FailureCounted ==
    /\ failures < budget.failures
    /\ failures' = failures + 1

\* The cell of a coordinate: the multiple of 1/1000 degree nearest to it, the
\* upper one of two equally near.
CellOf(x) ==
    CHOOSE m \in (x \div 10 - 1)..(x \div 10 + 1) : 10 * m - 5 <= x /\ x < 10 * m + 5

SameCell(a, b) ==
    /\ CellOf(a.lat) = CellOf(b.lat)
    /\ CellOf(a.lng) = CellOf(b.lng)
    /\ a.radius = b.radius

\* Lines 293-310 once _fetchFromOverpass has returned `elements` at time t:
\* parse, sort, cache and resolve; a throwing record rejects the promise.
\* The finally block runs in both cases.
Returned(r, req, elements, t) ==
    LET parsed == ParsePOIs(elements, req.lat, req.lng)
    IN  /\ requests' = MapDelete(requests, r)
        /\ pendingRequests' = PendingAfterSettle(req.key)
        /\ IF parsed.threw
           THEN /\ settled' = SettledAs(r, req, "rejected", elements, <<>>,
                                        LatitudeError, t)
                /\ UNCHANGED <<cache, successes>>
           ELSE /\ settled' = SettledAs(r, req, "resolved", elements,
                                        parsed.pois, NoError, t)
                /\ cache' = MapSet(cache, req.key,
                                   [pois |-> parsed.pois, timestamp |-> t])
                /\ successes' =
                      { s \in successes : ~SameCell(s, req) }
                      \cup { [lat |-> req.lat, lng |-> req.lng,
                              radius |-> req.radius, pois |-> parsed.pois,
                              at |-> t] }

----------------------------------------------------------------------------
(* fetchNearbyPOIs.                                                        *)

\* Line 276: a valid cache entry exists for the key.
CacheHit(key, t) == key \in DOMAIN cache /\ isCacheValid(cache[key], t)

\* Variant of HasPending that never sees a pending request.
NeverPending(key) == FALSE

\* Line 282: a request for the key is pending.
HasPending(key) == key \in DOMAIN pendingRequests

\* Variant of PendingPromise that returns a promise of its own.
NoPromise(key) == 0

\* Line 284: the promise a call for a pending key returns.
PendingPromise(key) == pendingRequests[key]

\* The request promise of line 288 before its body has run.
NewRequest(lat, lng, radius) ==
    [key |-> getCacheKey(lat, lng, radius), lat |-> lat, lng |-> lng,
     radius |-> radius, pc |-> "new", retryCount |-> 0, deadline |-> 0,
     failedAt |-> -MaxRetryDelay, issued |-> 0, lastStatus |-> 0,
     only429 |-> TRUE]

\* The identity of a new request promise: the least one not in use.
FreshId ==
    CHOOSE i \in 1..budget.calls :
        i \notin DOMAIN requests /\ \A j \in 1..(i - 1) : j \in DOMAIN requests

\* What a call returned: the kind of its promise, the request promise it
\* resolves with (0 for none), the cached list or the error it settled with
\* at once.
CallRecord(lat, lng, radius, kind, req, value, error) ==
    [lat |-> lat, lng |-> lng, radius |-> radius,
     key |-> getCacheKey(lat, lng, radius), kind |-> kind,
     req |-> req, value |-> value, error |-> error]

\* The calls of the burst after a valid call.
BurstWith(call) ==
    Append(burst, [key |-> call.key, kind |-> call.kind, req |-> call.req,
                   value |-> call.value])

\* fetchNearbyPOIs(lat, lng, radius), up to the return of its promise and
\* the first suspension of the request it may start.
Call(lat, lng, radius) ==
    /\ ncalls < budget.calls
    /\ ncalls' = ncalls + 1
    /\ LET key == getCacheKey(lat, lng, radius)
           invalid == CallRecord(lat, lng, radius, "invalid", 0, <<>>,
                                 InputError(lat, lng, radius))
           hit == CallRecord(lat, lng, radius, "cache", 0,
                             cache[key].pois, NoError)
           joined == CallRecord(lat, lng, radius, "joined",
                                PendingPromise(key), <<>>, NoError)
           started == CallRecord(lat, lng, radius, "started", FreshId,
                                 <<>>, NoError)
       IN  IF ~ValidInput(lat, lng, radius)
           THEN /\ lastCall' = <<invalid>>
                /\ UNCHANGED <<burst, requests, pendingRequests,
                               lastRequestTime>>
                /\ NoIssue
           ELSE IF CacheHit(key, Now)
           THEN /\ lastCall' = <<hit>>
                /\ burst' = BurstWith(hit)
                /\ UNCHANGED <<requests, pendingRequests, lastRequestTime>>
                /\ NoIssue
           ELSE IF HasPending(key)
           THEN /\ lastCall' = <<joined>>
                /\ burst' = BurstWith(joined)
                /\ UNCHANGED <<requests, pendingRequests, lastRequestTime>>
                /\ NoIssue
           ELSE /\ lastCall' = <<started>>
                /\ burst' = BurstWith(started)
                /\ requests' = MapSet(requests, FreshId,
                       Entered(NewRequest(lat, lng, radius), 0, Now))
                /\ lastRequestTime' = LastRequestTimeAfterEnter(Now)
                /\ pendingRequests' = MapSet(pendingRequests, key, FreshId)
                /\ IF WaitTime(Now) > 0 THEN NoIssue ELSE IssueLogged(Now)
    /\ UNCHANGED <<cache, failures, successes, settled, budget, purged>>

----------------------------------------------------------------------------
(* Timers and provider completions.                                        *)

\* The timer of _enforceRateLimit fires (lines 95-97), then fetch() is issued.
RateTimerFires(r) ==
    /\ requests[r].pc = "rateWait"
    /\ Now >= requests[r].deadline
    /\ lastRequestTime' = Now
    /\ requests' = [requests EXCEPT ![r] = Issued(requests[r], Now)]
    /\ IssueLogged(Now)
    /\ burst' = <<>>
    /\ UNCHANGED <<budget, purged>>
    /\ lastCall' = <<>>
    /\ settled' = <<>>
    /\ UNCHANGED <<cache, pendingRequests, ncalls, failures, successes>>

\* The backoff timer fires (line 156) and _fetchFromOverpass is entered
\* again with retryCount + 1 (line 157).
BackoffFires(r) ==
    /\ requests[r].pc = "backoff"
    /\ Now >= requests[r].deadline
    /\ requests' = [requests EXCEPT ![r] =
           Entered(requests[r], requests[r].retryCount + 1, Now)]
    /\ lastRequestTime' = LastRequestTimeAfterEnter(Now)
    /\ IF WaitTime(Now) > 0 THEN NoIssue ELSE IssueLogged(Now)
    /\ burst' = <<>>
    /\ UNCHANGED <<budget, purged>>
    /\ lastCall' = <<>>
    /\ settled' = <<>>
    /\ UNCHANGED <<cache, pendingRequests, ncalls, failures, successes>>

\* fetch() resolves with a response of the given status (lines 125-137).
Response(r, status) ==
    /\ requests[r].pc = "fetching"
    /\ IF status = 200
       THEN /\ requests' = [requests EXCEPT ![r] =
                   [requests[r] EXCEPT !.pc = "body", !.deadline = 0]]
            /\ settled' = <<>>
            /\ UNCHANGED <<pendingRequests, failures>>
       ELSE /\ FailureCounted
            /\ Caught(r, AttemptFailed(requests[r], status, Now),
                      StatusError(status), Now)
    /\ burst' = <<>>
    /\ UNCHANGED <<budget, purged>>
    /\ lastCall' = <<>>
    /\ NoIssue
    /\ UNCHANGED <<cache, lastRequestTime, ncalls, successes>>

\* fetch() rejects with a TypeError (no connection, CORS, DNS).
NetworkFailure(r, msg) ==
    /\ requests[r].pc = "fetching"
    /\ FailureCounted
    /\ Caught(r, AttemptFailed(requests[r], -1, Now), NetworkError(msg), Now)
    /\ burst' = <<>>
    /\ UNCHANGED <<budget, purged>>
    /\ lastCall' = <<>>
    /\ NoIssue
    /\ UNCHANGED <<cache, lastRequestTime, ncalls, successes>>

\* The abort timer of line 111 fires while fetch() is pending.
Timeout(r) ==
    /\ requests[r].pc = "fetching"
    /\ Now >= requests[r].deadline
    /\ FailureCounted
    /\ Caught(r, AttemptFailed(requests[r], -2, Now), AbortError, Now)
    /\ burst' = <<>>
    /\ UNCHANGED <<budget, purged>>
    /\ lastCall' = <<>>
    /\ NoIssue
    /\ UNCHANGED <<cache, lastRequestTime, ncalls, successes>>

\* response.json() resolves with the body (line 137).
BodyRead(r, elements) ==
    /\ requests[r].pc = "body"
    /\ Returned(r, requests[r], elements, Now)
    /\ burst' = <<>>
    /\ UNCHANGED <<budget, purged>>
    /\ lastCall' = <<>>
    /\ NoIssue
    /\ UNCHANGED <<lastRequestTime, ncalls, failures>>

\* response.json() rejects: the body is not JSON.
BodyFails(r) ==
    /\ requests[r].pc = "body"
    /\ FailureCounted
    /\ Caught(r, AttemptFailed(requests[r], -3, Now), JsonError, Now)
    /\ burst' = <<>>
    /\ UNCHANGED <<budget, purged>>
    /\ lastCall' = <<>>
    /\ NoIssue
    /\ UNCHANGED <<cache, lastRequestTime, ncalls, successes>>

\* getCacheStats() (lines 436-448) at time t: its entries, and its size.
getCacheStats(t) ==
    [size |-> Cardinality(DOMAIN cache),
     entries |-> { [key |-> k, poiCount |-> Len(cache[k].pois),
                    age |-> t - cache[k].timestamp,
                    valid |-> isCacheValid(cache[k], t)] : k \in DOMAIN cache }]

\* Variant of Cleared for a clearCache that removes nothing.
ClearedNothing == cache

\* this.cache after this.cache.clear(), line 428.
Cleared == EmptyMap

\* clearCache()
ClearCache ==
    /\ cache # EmptyMap
    /\ cache' = Cleared
    /\ successes' = {}
    /\ purged' = purged \cup DOMAIN cache
    /\ burst' = <<>>
    /\ UNCHANGED budget
    /\ lastCall' = <<>>
    /\ NoIssue
    /\ settled' = <<>>
    /\ UNCHANGED <<lastRequestTime, pendingRequests, requests, ncalls,
                   failures>>

----------------------------------------------------------------------------
(* The passage of time.  A timer fires at its deadline: time does not pass *)
(* a deadline that is due.  Time advances to the next instants at which    *)
(* the program's behaviour can change: a deadline, the end of the throttle *)
(* window, the expiry of a cache entry.                                    *)

\* The requests that wait for a timer: of _enforceRateLimit, of the abort
\* controller, of the backoff.
Timed == { r \in DOMAIN requests :
             requests[r].pc \in {"rateWait", "fetching", "backoff"} }

Deadlines == { requests[r].deadline : r \in Timed }

Instants ==
    Deadlines
    \cup { cache[k].timestamp + CACHE_DURATION : k \in DOMAIN cache }
    \cup { lastRequestTime + MIN_REQUEST_INTERVAL }

\* d ms pass.
AdvanceTime(d) ==
    /\ d > 0
    /\ \A t \in Deadlines : d <= t
    /\ lastRequestTime' = Older(lastRequestTime, d, MIN_REQUEST_INTERVAL)
    /\ cache' = [k \in DOMAIN cache |->
                   [cache[k] EXCEPT !.timestamp = Older(@, d, CACHE_DURATION)]]
    /\ requests' = [r \in DOMAIN requests |->
                      [requests[r] EXCEPT
                          !.deadline = IF r \in Timed THEN @ - d ELSE @,
                          !.failedAt = Older(@, d, MaxRetryDelay)]]
    /\ successes' = { [s EXCEPT !.at = Older(@, d, CACHE_DURATION)] :
                        s \in successes }
    /\ lastIssuedAt' = Older(lastIssuedAt, d, MIN_REQUEST_INTERVAL)
    /\ burst' = <<>>
    /\ UNCHANGED <<budget, purged>>
    /\ lastCall' = <<>>
    /\ settled' = <<>>
    /\ UNCHANGED <<pendingRequests, ncalls, failures, issueGap>>

----------------------------------------------------------------------------
(* The application's POI refresh, AugmentedWikiApp._updatePOIs             *)
(* (src/src/main.js lines 203-327), and the renderer's POI set,            *)
(* OverlayRenderer.updatePOIs (src/src/ar/overlay-renderer.js lines        *)
(* 119-159).  An entry of activePOIs is the POI of its state (state.poi),  *)
(* in the order of the Map.                                                *)

VARIABLES
    isFetchingPOIs,   \* this.isFetchingPOIs
    lastFetchedPOIs,  \* this.lastFetchedPOIs
    lastPOIFetchTime, \* this.lastPOIFetchTime
    activePOIs,       \* overlayRenderer.activePOIs
    awaited,          \* the request promise _updatePOIs awaits, 0 for none
    atCall,           \* the cached and displayed lists when the refresh began
    refresh           \* how the last step ended a refresh, "" if it ended none

appVars == <<isFetchingPOIs, lastFetchedPOIs, lastPOIFetchTime, activePOIs,
             awaited, atCall, refresh>>

\* this.fetchRadius, main.js line 25.
fetchRadius == 10000

\* The minimum time between two fetches of _updatePOIs, main.js line 213.
MinFetchInterval == 5000

\* The positions geolocator.getPosition() returns, <<lat, lng>>.
AppPositions == { <<485000, 23000>>, <<485020, 23000>> }

\* The POI list of every cache entry.
CachedLists == [k \in DOMAIN cache |-> cache[k].pois]

\* Lines 137-150 for one POI: a new entry at the end of the Map, or the
\* entry of its id updated in place.
SetActive(active, poi) ==
    IF \E i \in 1..Len(active) : active[i].id = poi.id
    THEN [i \in 1..Len(active) |->
             IF active[i].id = poi.id THEN poi ELSE active[i]]
    ELSE Append(active, poi)

\* The forEach of lines 128-151.
RECURSIVE SetAllActive(_, _)
SetAllActive(active, pois) ==
    IF pois = <<>> THEN active
    ELSE SetAllActive(SetActive(active, Head(pois)), Tail(pois))

\* OverlayRenderer.updatePOIs(pois) on the Map `active` (every POI of the
\* model has an id).
updatePOIs(active, pois) ==
    LET newPOIIds == { pois[i].id : i \in 1..Len(pois) }
    IN  SelectSeq(SetAllActive(active, pois), LAMBDA p : p.id \in newPOIIds)

\* The state of a new AugmentedWikiApp (main.js lines 25-27, 62) and of a new
\* OverlayRenderer (line 28); lastPOIFetchTime is 0, the epoch.
AppConstructed ==
    /\ isFetchingPOIs = FALSE
    /\ lastFetchedPOIs = <<>>
    /\ lastPOIFetchTime = -MinFetchInterval
    /\ activePOIs = <<>>
    /\ awaited = 0
    /\ atCall = [cache |-> EmptyMap, lastFetchedPOIs |-> <<>>,
                 activePOIs |-> <<>>]
    /\ refresh = ""

\* Variant of AppCaught for a catch block that clears the view.
AppCaughtCleared(shown) == <<>>

\* A displayed list after the catch block of _updatePOIs (lines 306-323),
\* which assigns neither lastFetchedPOIs nor the renderer's POIs.
AppCaught(shown) == shown

\* Lines 243-304 and the finally block: the fetched list is stored and
\* handed to the renderer (the orientation is available).
AppShown(pois) ==
    /\ lastFetchedPOIs' = pois
    /\ activePOIs' = updatePOIs(activePOIs, pois)
    /\ isFetchingPOIs' = FALSE
    /\ awaited' = 0
    /\ refresh' = "shown"

\* Lines 306-326: the catch block and the finally block.
AppFailed ==
    /\ lastFetchedPOIs' = AppCaught(lastFetchedPOIs)
    /\ activePOIs' = AppCaught(activePOIs)
    /\ isFetchingPOIs' = FALSE
    /\ awaited' = 0
    /\ refresh' = "failed"

\* Variant of FetchInProgress that never sees a fetch in progress.
NoFetchInProgress(flag) == FALSE

\* Line 219: the test of isFetchingPOIs.
FetchInProgress(flag) == flag

\* _updatePOIs() with a position available, when it fetches (lines 213-241);
\* a promise that is settled at the call continues at once.
UpdatePOIs(position) ==
    /\ ~(Now - lastPOIFetchTime < MinFetchInterval)
    /\ ~FetchInProgress(isFetchingPOIs)
    /\ lastPOIFetchTime' = Now
    /\ atCall' = [cache |-> CachedLists, lastFetchedPOIs |-> lastFetchedPOIs,
                  activePOIs |-> activePOIs]
    /\ Call(position[1], position[2], fetchRadius)
    /\ CASE lastCall'[1].kind = "cache" -> AppShown(lastCall'[1].value)
         [] lastCall'[1].kind = "invalid" -> AppFailed
         [] OTHER ->
              /\ isFetchingPOIs' = TRUE
              /\ awaited' = lastCall'[1].req
              /\ refresh' = ""
              /\ UNCHANGED <<lastFetchedPOIs, activePOIs>>

\* The continuation of _updatePOIs after an event of the detector: it runs
\* when the event settled the promise that _updatePOIs awaits.
AppContinues ==
    /\ UNCHANGED <<lastPOIFetchTime, atCall>>
    /\ IF settled' # <<>> /\ awaited # 0 /\ settled'[1].id = awaited
       THEN IF settled'[1].pc = "resolved"
            THEN AppShown(settled'[1].result)
            ELSE AppFailed
       ELSE /\ refresh' = ""
            /\ UNCHANGED <<isFetchingPOIs, lastFetchedPOIs, activePOIs,
                           awaited>>

\* d ms pass in the application.
AppAdvanceTime(d) ==
    /\ AdvanceTime(d)
    /\ lastPOIFetchTime' = Older(lastPOIFetchTime, d, MinFetchInterval)
    /\ refresh' = ""
    /\ UNCHANGED <<isFetchingPOIs, lastFetchedPOIs, activePOIs, awaited,
                   atCall>>

\* The instants of the application: those of the detector and the end of
\* the minimum time between two fetches.
AppInstants == Instants \cup { lastPOIFetchTime + MinFetchInterval }

----------------------------------------------------------------------------
(* _parseElement on its own: one provider record of a response to a fetch  *)
(* at (48.5, 2.3).                                                         *)

VARIABLES
    element,          \* the record given to _parseElement, <<>> for none
    parsed            \* <<>>, or <<what _parseElement did with the record>>

recordVars == <<element, parsed>>

\* The coordinates of a record: of a node, of a way (center), none, a node
\* on the equator, a node with a latitude of 91 degrees.
RecordCoordinates ==
    { [lat |-> <<485100>>, lon |-> <<23000>>, center |-> <<>>],
      [lat |-> <<>>, lon |-> <<>>,
       center |-> << [lat |-> <<485050>>, lon |-> <<23010>>] >>],
      [lat |-> <<>>, lon |-> <<>>, center |-> <<>>],
      [lat |-> <<0>>, lon |-> <<23000>>, center |-> <<>>],
      [lat |-> <<910000>>, lon |-> <<23000>>, center |-> <<>>] }

\* The name tag of a record: none, a name, the empty string.
NameTags == { <<>>, << <<"name", <<"Near">> >> >>, << <<"name", <<"">> >> >> }

\* The wikipedia tag: none, 'en:Far', 'Far', the empty string.
WikipediaTags ==
    { <<>>, << <<"wikipedia", <<"en", "Far">> >> >>,
      << <<"wikipedia", <<"Far">> >> >>, << <<"wikipedia", <<"">> >> >> }

\* The tag wikipedia:de: none, or a title.
LanguageTags == { <<>>, << <<"wikipedia:de", <<"Fern">> >> >> }

\* The wikidata tag: none, or an id.
WikidataTags == { <<>>, << <<"wikidata", <<"Q2">> >> >> }

\* The records given to _parseElement; a record without tags has none of
\* the four.
Records ==
    { [type |-> IF c.center = <<>> THEN "node" ELSE "way", id |-> 7,
       lat |-> c.lat, lon |-> c.lon,
       center |-> c.center, tags |-> n \o w \o l \o d] :
         c \in RecordCoordinates, n \in NameTags, w \in WikipediaTags,
         l \in LanguageTags, d \in WikidataTags }

NoRecord == element = <<>> /\ parsed = <<>>

\* this._parseElement(element, { lat, lng }) for a fetch at (48.5, 2.3).
ParseRecord ==
    /\ parsed = <<>>
    /\ parsed' = << parseElement(element, 485000, 23000) >>
    /\ UNCHANGED element

----------------------------------------------------------------------------
(* The layout of a frame: OverlayRenderer._updateFrame from the sort of    *)
(* line 270 on, and _resolveCollisions (overlay-renderer.js lines          *)
(* 269-368).  A screen position of projectToScreen is in whole pixels;     *)
(* the label sizes, the slots and the positions of placed labels are in    *)
(* 1/100 pixel, and a scale is in percent.                                 *)

VARIABLES
    screenHeight,     \* this.screenDimensions.height
    maxLabels,        \* this.maxLabels
    visiblePOIs,      \* visiblePOIs of _updateFrame after the projection
    displayPOIs,      \* displayPOIs of _updateFrame (line 273)
    finalPOIs,        \* finalPOIs of _updateFrame (line 276)
    frameLog,         \* for each POI of displayPOIs, the labels in its way
    frame             \* "none", "projected" or "resolved"

layoutVars == <<screenHeight, maxLabels, visiblePOIs, displayPOIs, finalPOIs,
                frameLog, frame>>

\* Bound: the number of POIs of a frame that are placed freely.
MaxPOIs == 3

baseWidth == 200

baseHeight == 90

\* The gap added to the label height in a vertical step, line 306.
StepGap == 2

\* The largest offset of the search, line 318.
MaxOffset == 12

\* The header and footer margins of line 334.
HeaderMargin == 60

FooterMargin == 120

\* Lines 300-302: the scale for n candidate labels.
DensityScale(n) == IF n > 20 THEN 75 ELSE IF n > 10 THEN 90 ELSE 100

labelWidth(scale) == baseWidth * scale

labelHeight(scale) == baseHeight * scale

verticalStep(scale) == labelHeight(scale) + StepGap * 100

collisionWidth(scale) == (labelWidth(scale) * 9) \div 10

collisionHeight(scale) == (labelHeight(scale) * 9) \div 10

Abs(x) == IF x < 0 THEN -x ELSE x

\* Variant of Offsets that searches upwards first: 0, -1, +1, -2, +2, ...
OffsetsUpFirst ==
    [i \in 1..(2 * MaxOffset + 1) |->
        IF i % 2 = 0 THEN -(i \div 2) ELSE i \div 2]

\* Lines 317-321: the offsets 0, +1, -1, +2, -2, ..., +12, -12.
Offsets ==
    [i \in 1..(2 * MaxOffset + 1) |->
        IF i % 2 = 0 THEN i \div 2 ELSE -(i \div 2)]

\* Variant of InBounds without the footer margin.
InBoundsHeaderOnly(candidateY, height, scale) ==
    ~(candidateY < HeaderMargin * 100)

\* Line 334: the slot lies within the vertical margins.
InBounds(candidateY, height, scale) ==
    ~(\/ candidateY < HeaderMargin * 100
      \/ candidateY > height * 100 - labelHeight(scale) - FooterMargin * 100)

\* Lines 341-344: a label at pixel column x and height candidateY collides
\* with a placed one.
Collides(x, candidateY, region, scale) ==
    /\ Abs(x * 100 - region.x * 100) < collisionWidth(scale)
    /\ Abs(candidateY - region.y) < collisionHeight(scale)

\* Variant of CollidingRegions that looks at the last placed label only.
CollidingLast(x, candidateY, occupiedRegions, scale) ==
    { j \in {Len(occupiedRegions)} \ {0} :
        Collides(x, candidateY, occupiedRegions[j], scale) }

\* Lines 340-348: the placed labels a slot collides with.
CollidingRegions(x, candidateY, occupiedRegions, scale) ==
    { j \in 1..Len(occupiedRegions) :
        Collides(x, candidateY, occupiedRegions[j], scale) }

\* Lines 329-355 from the k-th offset on: the first slot within bounds that
\* collides with no placed label, and the labels that made the loop of line
\* 340 break on the way.
RECURSIVE SearchSlot(_, _, _, _, _, _)
SearchSlot(k, originalPos, occupiedRegions, height, scale, blockers) ==
    IF k > Len(Offsets)
    THEN [foundSlot |-> FALSE, y |-> 0, blockers |-> blockers]
    ELSE LET candidateY == originalPos.y * 100
                            + Offsets[k] * verticalStep(scale)
             hits == CollidingRegions(originalPos.x, candidateY,
                                      occupiedRegions, scale)
             first == CHOOSE j \in hits : \A i \in hits : j <= i
         IN  IF ~InBounds(candidateY, height, scale)
             THEN SearchSlot(k + 1, originalPos, occupiedRegions, height,
                             scale, blockers)
             ELSE IF hits # {}
             THEN SearchSlot(k + 1, originalPos, occupiedRegions, height,
                             scale,
                             blockers \cup {occupiedRegions[first].poiId})
             ELSE [foundSlot |-> TRUE, y |-> candidateY,
                   blockers |-> blockers]

\* The loop of lines 323-365 over the POIs that remain: result is the list
\* of placed labels (its positions are occupiedRegions), log the record of
\* every POI considered.
RECURSIVE PlaceLabels(_, _, _, _, _)
PlaceLabels(remaining, result, log, height, scale) ==
    IF remaining = <<>> THEN [result |-> result, log |-> log]
    ELSE LET poi == Head(remaining)
             slot == SearchSlot(1, poi, result, height, scale, {})
             entry == [poiId |-> poi.poiId, distance |-> poi.distance,
                       blockers |-> slot.blockers,
                       foundSlot |-> slot.foundSlot]
         IN  IF slot.foundSlot
             THEN PlaceLabels(Tail(remaining),
                              Append(result,
                                     [poiId |-> poi.poiId,
                                      distance |-> poi.distance,
                                      x |-> poi.x, y |-> slot.y,
                                      scale |-> scale]),
                              Append(log, entry), height, scale)
             ELSE PlaceLabels(Tail(remaining), result, Append(log, entry),
                              height, scale)

\* _resolveCollisions(visiblePOIs) on a screen of the given height.
resolveCollisions(pois, height) ==
    PlaceLabels(pois, <<>>, <<>>, height, DensityScale(Len(pois)))

\* Variant of RankByDistance that keeps the order of the Map.
Unranked(pois) == pois

\* Line 270: visiblePOIs.sort by state.poi.distance.
RankByDistance(pois) == SortByDistance(pois)

\* Variant of Capped that keeps every POI.
Uncapped(pois, n) == pois

\* Line 273: visiblePOIs.slice(0, this.maxLabels).
Capped(pois, n) == SubSeq(pois, 1, Min(Len(pois), n))

\* The POIs of a frame after the projection: distance is state.poi.distance,
\* x and y are state.screenPos.  Those near the top of the screen, and
\* those with room above and below.
ProjectedPOIs == [distance : {100, 300}, x : {100, 280}, y : {60, 110}]

CentralPOIs == [distance : {100, 300}, x : {100, 200}, y : {200, 250}]

\* The lists of at most n POIs of a set, in the order of the Map.
ProjectedLists(n, pois) ==
    UNION { { [i \in 1..k |->
                 [poiId |-> i, distance |-> f[i].distance, x |-> f[i].x,
                  y |-> f[i].y]] : f \in [1..k -> pois] } :
            k \in 0..n }

\* n far POIs spread over a wide screen, none colliding with another.
FarPOIs(n) ==
    [i \in 1..n |-> [poiId |-> 100 + i, distance |-> 4000 + i,
                     x |-> 1000 + 200 * i, y |-> 300]]

\* The frames: a few POIs on a screen too short for a label or with room
\* for two rows, with a cap of 2 or 20 labels; two POIs in the middle of a
\* high screen; one or two POIs and 10 or 20 far ones, which make the scale
\* 0.9 and 0.75, on a high screen; the same with 20 far ones under the cap of
\* 20 labels a renderer has by default (line 22).
Frames ==
    { [height |-> h, maxLabels |-> m, visible |-> l] :
        h \in {250, 362}, m \in {2, 20},
        l \in ProjectedLists(MaxPOIs, ProjectedPOIs) }
    \cup
    { [height |-> 800, maxLabels |-> 20, visible |-> l] :
        l \in ProjectedLists(2, CentralPOIs) }
    \cup
    { [height |-> 800, maxLabels |-> 30, visible |-> l \o FarPOIs(n)] :
        n \in {10, 20}, l \in ProjectedLists(2, ProjectedPOIs) \ { <<>> } }
    \cup
    { [height |-> 800, maxLabels |-> 20, visible |-> l \o FarPOIs(20)] :
        l \in ProjectedLists(2, ProjectedPOIs) \ { <<>> } }

\* No frame is laid out.
NoFrame ==
    /\ screenHeight = 0
    /\ maxLabels = 20
    /\ visiblePOIs = <<>>
    /\ displayPOIs = <<>>
    /\ finalPOIs = <<>>
    /\ frameLog = <<>>
    /\ frame = "none"

\* _updateFrame, lines 269-276.
UpdateFrame ==
    /\ frame = "projected"
    /\ LET ranked == RankByDistance(visiblePOIs)
           shown == Capped(ranked, maxLabels)
           resolved == resolveCollisions(shown, screenHeight)
       IN  /\ displayPOIs' = shown
           /\ finalPOIs' = resolved.result
           /\ frameLog' = resolved.log
    /\ frame' = "resolved"
    /\ UNCHANGED <<screenHeight, maxLabels, visiblePOIs>>

----------------------------------------------------------------------------
(* The projection: normalizeAngle, projectToScreen and isInViewFrustum of  *)
(* src/src/utils/coordinates.js.  Angles are in hundredths of a degree, a  *)
(* field of view and a pitch in whole degrees, distances in centimetres,   *)
(* screen sizes and positions in pixels.  A position or null is <<pos>> or *)
(* <<>>.                                                                   *)

\* The % of JavaScript: the remainder has the sign of the dividend.
JsRem(a, b) == IF a >= 0 THEN a % b ELSE -((-a) % b)

\* Variant of normalizeAngle that returns the angle as it is.
Unnormalized(angle) == angle

\* normalizeAngle, lines 34-40.
normalizeAngle(angle) ==
    LET normalized == JsRem(angle, 36000)
    IN  IF normalized < 0 THEN normalized + 36000 ELSE normalized

\* Lines 187-197 (and 311-319): the angle from the device heading to the
\* bearing of the POI.
azimuthDiff(bearingToPOI, deviceHeading) ==
    LET diff == bearingToPOI - normalizeAngle(deviceHeading)
    IN  IF diff > 18000 THEN diff - 36000
        ELSE IF diff < -18000 THEN diff + 36000
        ELSE diff

\* Line 230, in metres.
effectiveMaxDistance == 5000

\* Lines 216-217 and 245: x = Math.round(screenWidth / 2 +
\* azimuthDiff / horizontalFOV * screenWidth).
ScreenX(diff, width, horizontalFOV) ==
    MathRound(width * horizontalFOV * 100 + 2 * diff * width,
              2 * horizontalFOV * 100)

\* Lines 231-237 and 246: y = Math.round(screenHeight * (0.85 -
\* Math.min(distance / 5000, 1) * 0.75)).
ScreenY(distance, height) ==
    LET capped == Min(distance, effectiveMaxDistance * 100)
    IN  (1700000 * height - 3 * height * capped + 1000000) \div 2000000

\* Variant of ProjectAt that also drops a POI when the device is tilted by
\* more than half the vertical field of view.
ProjectAtPitched(bearingToPOI, distance, deviceHeading, devicePitch, width, height, horizontalFOV, verticalFOV) ==
    LET diff == azimuthDiff(bearingToPOI, deviceHeading)
    IN  IF Abs(diff) * 2 > horizontalFOV * 100
           \/ Abs(devicePitch) * 2 > verticalFOV
        THEN <<>>
        ELSE << [x |-> ScreenX(diff, width, horizontalFOV),
                 y |-> ScreenY(distance, height),
                 distance |-> distance, bearing |-> bearingToPOI] >>

\* projectToScreen from line 185 on, for a POI at a bearing and a distance.
ProjectAt(bearingToPOI, distance, deviceHeading, devicePitch, width, height, horizontalFOV, verticalFOV) ==
    LET diff == azimuthDiff(bearingToPOI, deviceHeading)
    IN  IF Abs(diff) * 2 > horizontalFOV * 100
        THEN <<>>
        ELSE << [x |-> ScreenX(diff, width, horizontalFOV),
                 y |-> ScreenY(distance, height),
                 distance |-> distance, bearing |-> bearingToPOI] >>

\* projectToScreen: [threw |-> TRUE] when calculateBearing or
\* calculateDistance throws.  A location is <<lat, lng>>.
projectToScreen(userLocation, poiLocation, deviceHeading, devicePitch, width, height, horizontalFOV, verticalFOV) ==
    LET b == calculateBearing(userLocation[1], userLocation[2],
                              poiLocation[1], poiLocation[2])
        d == calculateDistance(userLocation[1], userLocation[2],
                               poiLocation[1], poiLocation[2])
    IN  IF ~b.ok \/ ~d.ok
        THEN [threw |-> TRUE, pos |-> <<>>]
        ELSE [threw |-> FALSE,
              pos |-> ProjectAt(b.cdeg, d.cm, deviceHeading, devicePitch,
                                width, height, horizontalFOV,
                                verticalFOV)]

\* isInViewFrustum (lines 281-333) for locations with valid latitudes;
\* maxDistance is in metres.
isInViewFrustum(userLocation, poiLocation, deviceHeading, devicePitch, horizontalFOV, verticalFOV, maxDistance) ==
    LET d == calculateDistance(userLocation[1], userLocation[2],
                               poiLocation[1], poiLocation[2])
        b == calculateBearing(userLocation[1], userLocation[2],
                              poiLocation[1], poiLocation[2])
    IN  IF d.cm > maxDistance * 100
        THEN FALSE
        ELSE Abs(azimuthDiff(b.cdeg, deviceHeading)) * 2
                <= horizontalFOV * 100

\* One call of projectToScreen past its geodesy: the arguments and the
\* result.
VARIABLES
    projected,        \* the arguments of the call
    screenPos         \* <<>> before the call, then << the value returned >>

projectionVars == <<projected, screenPos>>

\* Bearings to the POI, device headings (also negative and beyond a full
\* turn), distances and fields of view.
Bearings == {0, 755, 3000, 3001, 9000, 17999, 18000, 18001, 27000, 34755,
             35999}

Headings == {-72000, -36001, -18000, -3001, -3000, -1, 0, 1, 2999, 3000,
             3001, 18000, 21000, 35999, 36000, 39000, 75000}

Distances == {0, 56084, 500000, 600000}

FieldsOfView == {60, 90}

Pitches == {0, 60}

Projections ==
    [bearing : Bearings, heading : Headings, distance : Distances,
     pitch : Pitches, hFOV : FieldsOfView]

\* The screen of the model: window.innerWidth and window.innerHeight.
ScreenDimensions == [width |-> 360, height |-> 800]

\* The call.
Project ==
    /\ screenPos = <<>>
    /\ screenPos' = << ProjectAt(projected.bearing, projected.distance,
                                 projected.heading, projected.pitch,
                                 ScreenDimensions.width,
                                 ScreenDimensions.height, projected.hFOV,
                                 45) >>
    /\ UNCHANGED projected

\* No call of projectToScreen is followed.
NoProjection ==
    /\ projected = [bearing |-> 0, heading |-> 0, distance |-> 0,
                    pitch |-> 0, hFOV |-> 60]
    /\ screenPos = <<>>

----------------------------------------------------------------------------
(* The renderer and its frame driver: OverlayRenderer of                   *)
(* src/src/ar/overlay-renderer.js, lines 20-40, 86-113 and 164-280.  A     *)
(* heading is in hundredths of a degree, a pitch in whole degrees, a       *)
(* distance of a POI in metres.  lastUpdateTime is relative to the current *)
(* instant and is kept at -updateInterval when it is older.                *)

VARIABLES
    isRendering,        \* this.isRendering
    animationFrameId,   \* this.animationFrameId, 0 for null
    scheduled,          \* the requested animation frames not yet run
    lastUpdateTime,     \* this.lastUpdateTime
    userPosition,       \* this.userPosition: <<>> or << <<lat, lng>> >>
    deviceOrientation,  \* this.deviceOrientation: <<>> or << the record >>
    maxVisibleDistance, \* this.maxVisibleDistance
    frameGap,           \* the time from the previous _updateFrame to the last
    op                  \* "stop" when the last step was a call of stop(),
                        \* "restart" for a start() right after a stop(),
                        \* "start" for any other start(), else ""

loopVars == <<isRendering, animationFrameId, scheduled, lastUpdateTime,
              frameGap>>

sensorVars == <<userPosition, deviceOrientation>>

settingVars == <<maxVisibleDistance, maxLabels, screenHeight, activePOIs>>

outputVars == <<visiblePOIs, displayPOIs, finalPOIs, frameLog, frame>>

rendererVars == <<loopVars, sensorVars, maxVisibleDistance, op>>

\* Line 25.
updateInterval == 50

\* Lines 23 and 24.
horizontalFOV == 60

verticalFOV == 45


\* The maxLabels and the maxDistance the application constructs the
\* renderer with (main.js lines 24, 142, 143).
AppMaxLabels == 30

AppMaxDistance == 5000

\* A new OverlayRenderer, lines 20-40.
RendererConstructed ==
    /\ isRendering = FALSE
    /\ animationFrameId = 0
    /\ scheduled = {}
    /\ lastUpdateTime = -updateInterval
    /\ userPosition = <<>>
    /\ deviceOrientation = <<>>
    /\ maxVisibleDistance = AppMaxDistance
    /\ frameGap = updateInterval
    /\ op = ""

\* Lines 220-251: the POIs within the distance threshold that project onto
\* the screen, in the order of the Map (the latitudes of the model are
\* valid, so that projectToScreen does not throw).
ProjectPOIs(active, user, orientation, maxDistance, height) ==
    LET screenPosOf(i) ==
            projectToScreen(user, <<active[i].lat, active[i].lng>>,
                            orientation.heading, orientation.pitch,
                            ScreenDimensions.width, height,
                            horizontalFOV, verticalFOV).pos
        kept == SelectSeq([i \in 1..Len(active) |-> i],
                          LAMBDA i : /\ ~(active[i].distance > maxDistance)
                                     /\ screenPosOf(i) # <<>>)
    IN  [k \in 1..Len(kept) |->
            [poiId |-> active[kept[k]].id,
             distance |-> active[kept[k]].distance,
             x |-> screenPosOf(kept[k])[1].x,
             y |-> screenPosOf(kept[k])[1].y]]

\* Lines 269-276 on the projected POIs: displayPOIs and the result of
\* _resolveCollisions.
LaidOut(visible, cap, height) ==
    LET shown == Capped(RankByDistance(visible), cap)
    IN  [displayPOIs |-> shown, resolved |-> resolveCollisions(shown, height)]

\* _updateFrame, lines 210-280.
FrameUpdate ==
    IF userPosition = <<>> \/ deviceOrientation = <<>>
    THEN /\ frame' = "skipped"
         /\ UNCHANGED <<visiblePOIs, displayPOIs, finalPOIs, frameLog>>
    ELSE LET visible == ProjectPOIs(activePOIs, userPosition[1],
                                    deviceOrientation[1], maxVisibleDistance,
                                    screenHeight)
             laid == LaidOut(visible, maxLabels, screenHeight)
         IN  /\ visiblePOIs' = visible
             /\ displayPOIs' = laid.displayPOIs
             /\ finalPOIs' = laid.resolved.result
             /\ frameLog' = laid.resolved.log
             /\ frame' = "resolved"

\* Variant of zIndex that gives every label of a frame the same value.
zIndexFlat(length, index) == 1000 + length

\* _updateDOM, line 408: the z-index of the label at an index (from 0) of a
\* list of the given length.
zIndex(length, index) == 1000 + (length - index)

\* _updateDOM, lines 387-411: the labels in the order of the forEach, with
\* the position, scale and z-index _updateLabelPosition gives them.
Labels(final) ==
    [i \in 1..Len(final) |->
        [poiId |-> final[i].poiId, distance |-> final[i].distance,
         x |-> final[i].x, y |-> final[i].y, scale |-> final[i].scale,
         zIndex |-> zIndex(Len(final), i - 1)]]

\* Variant of Due for a loop that updates on every animation frame.
AlwaysDue(deltaTime) == TRUE

\* Line 198.
Due(deltaTime) == deltaTime >= updateInterval

\* requestAnimationFrame: an id that no scheduled frame has.
FrameId(pending) == CHOOSE id \in 1..(Cardinality(pending) + 1) :
                        id \notin pending

\* _renderLoop when isRendering is true (lines 194-203), with the animation
\* frames that are scheduled when it runs.
renderLoop(pending) ==
    /\ IF Due(Now - lastUpdateTime)
       THEN /\ FrameUpdate
            /\ lastUpdateTime' = Now
            /\ frameGap' = Now - lastUpdateTime
       ELSE /\ frame' = "none"
            /\ UNCHANGED <<visiblePOIs, displayPOIs, finalPOIs, frameLog,
                           lastUpdateTime, frameGap>>
    /\ animationFrameId' = FrameId(pending)
    /\ scheduled' = pending \cup {FrameId(pending)}

\* start(), lines 164-171.
Start ==
    /\ op' = IF op = "stop" THEN "restart" ELSE "start"
    /\ IF isRendering
       THEN /\ frame' = "none"
            /\ UNCHANGED <<loopVars, visiblePOIs, displayPOIs, finalPOIs,
                           frameLog>>
       ELSE /\ isRendering' = TRUE
            /\ renderLoop(scheduled)
    /\ UNCHANGED <<sensorVars, settingVars>>

\* Variant of Cancelled for a stop() that cancels nothing.
NotCancelled(pending, id) == pending

\* cancelAnimationFrame(id).
Cancelled(pending, id) == pending \ {id}

\* Lines 177-182.
Stopped ==
    /\ isRendering' = FALSE
    /\ scheduled' = IF animationFrameId # 0
                    THEN Cancelled(scheduled, animationFrameId)
                    ELSE scheduled
    /\ animationFrameId' = 0
    /\ frame' = "none"
    /\ UNCHANGED <<lastUpdateTime, frameGap, visiblePOIs, displayPOIs,
                   finalPOIs, frameLog>>

\* stop(), lines 176-183.
Stop ==
    /\ op' = "stop"
    /\ Stopped
    /\ UNCHANGED <<sensorVars, settingVars>>

\* destroy(), lines 647-666.
Destroy ==
    /\ op' = ""
    /\ Stopped
    /\ activePOIs' = <<>>
    /\ UNCHANGED <<sensorVars, maxVisibleDistance, maxLabels, screenHeight>>

\* The browser runs the callback of a scheduled animation frame, line 203.
FrameCallback(id) ==
    /\ id \in scheduled
    /\ op' = ""
    /\ IF ~isRendering
       THEN /\ scheduled' = scheduled \ {id}
            /\ frame' = "none"
            /\ UNCHANGED <<isRendering, animationFrameId, lastUpdateTime,
                           frameGap, visiblePOIs, displayPOIs, finalPOIs,
                           frameLog>>
       ELSE /\ renderLoop(scheduled \ {id})
            /\ UNCHANGED isRendering
    /\ UNCHANGED <<sensorVars, settingVars>>

\* A handler that assigns fields of the renderer and runs no frame.
NoTick ==
    /\ frame' = "none"
    /\ UNCHANGED <<loopVars, visiblePOIs, displayPOIs, finalPOIs, frameLog>>

\* updateUserPosition(position), lines 86-88.
UpdateUserPosition(position) ==
    /\ op' = ""
    /\ userPosition' = <<position>>
    /\ NoTick
    /\ UNCHANGED <<deviceOrientation, settingVars>>

\* updateDeviceOrientation(orientation), lines 94-96.
UpdateDeviceOrientation(orientation) ==
    /\ op' = ""
    /\ deviceOrientation' = <<orientation>>
    /\ NoTick
    /\ UNCHANGED <<userPosition, settingVars>>

\* updateMaxDistance(distance), lines 102-104.
UpdateMaxDistance(distance) ==
    /\ op' = ""
    /\ maxVisibleDistance' = distance
    /\ NoTick
    /\ UNCHANGED <<sensorVars, maxLabels, screenHeight, activePOIs>>

\* An assignment to maxLabels (main.js lines 361 and 363).
SetMaxLabels(n) ==
    /\ op' = ""
    /\ maxLabels' = n
    /\ NoTick
    /\ UNCHANGED <<sensorVars, maxVisibleDistance, screenHeight, activePOIs>>

\* updatePOIs(pois), lines 119-159.
SetPOIs(pois) ==
    /\ op' = ""
    /\ activePOIs' = updatePOIs(activePOIs, pois)
    /\ NoTick
    /\ UNCHANGED <<sensorVars, maxVisibleDistance, maxLabels, screenHeight>>

\* d ms pass.
RendererAdvanceTime(d) ==
    /\ op' = ""
    /\ lastUpdateTime' = Older(lastUpdateTime, d, updateInterval)
    /\ frame' = "none"
    /\ UNCHANGED <<isRendering, animationFrameId, scheduled, frameGap,
                   visiblePOIs, displayPOIs, finalPOIs, frameLog,
                   sensorVars, settingVars>>

\* The positions and the orientations the geolocator delivers, the lists of
\* POIs a fetch from one of the positions returns, and the settings.
Orientations == [heading : {0, 4000}, pitch : Pitches]

FetchedLists ==
    { ParsePOIs(elements, position[1], position[2]).pois :
        elements \in Bodies, position \in AppPositions }

MaxDistances == {1000, AppMaxDistance}

LabelCaps == {1, AppMaxLabels}

\* The time between two animation frames, and the update interval.
FrameTimes == {25, updateInterval}

----------------------------------------------------------------------------
(* The signal smoother: CompassFilter, ExponentialFilter and               *)
(* OrientationSmoother of src/src/utils/sensors.js.  A raw reading and the *)
(* calibration offset are in whole degrees.  A smoothed heading is in      *)
(* millionths of a degree, the nearest to the binary64 number the code     *)
(* computes; 360000000 is the number 360 itself, and no smaller number of  *)
(* the model is within a millionth of it.  A smoothed pitch or roll is in  *)
(* hundredths of a degree.  The arrays sinValues and cosValues of a        *)
(* CompassFilter are the sines and cosines of the headings in its window,  *)
(* which is what the model keeps.                                          *)

VARIABLES
    headingFilter,     \* the window of this.headingFilter
    pitchFilter,       \* this.pitchFilter.value: <<>> for null or <<value>>
    rollFilter,        \* this.rollFilter.value
    calibrationOffset, \* this.calibrationOffset
    smoothed,          \* what the last step's update() returned, else <<>>
    smootherOp,        \* the method of the smoother the last step called
    updates            \* the number of calls of update() that are counted

smootherVars == <<headingFilter, pitchFilter, rollFilter, calibrationOffset,
                  smoothed, smootherOp, updates>>

\* Bound: the calls of update() in a run that sets calibration offsets.
MaxUpdates == 2

\* The window of the heading filter, line 150.
HeadingWindow == 8

\* The number of entries of a window that equal a heading.
CountOf(window, heading) ==
    Cardinality({ i \in 1..Len(window) : window[i] = heading })

\* Lines 128-136 for a window of n headings of 359 and 1 degrees, d more of
\* them 1 than 359: Math.atan2(avgSin, avgCos) * 180 / Math.PI, plus 360
\* when it is negative, in binary64.  Math.sin of 359 degrees is
\* -0.01745240643728445 and Math.sin of 1 degree 0.01745240643728351; the
\* sum of as many of the one as of the other is negative, the angle is
\* -0.00000000000002684 degrees, and adding 360 to it gives 360.
WrapMean ==
    <<-1, 1>> :> 359000000 @@ <<1, 1>> :> 1000000 @@
    <<-2, 2>> :> 359000000 @@ <<0, 2>> :> 360000000 @@ <<2, 2>> :> 1000000 @@
    <<-3, 3>> :> 359000000 @@ <<-1, 3>> :> 359666637 @@
    <<1, 3>> :> 333363 @@ <<3, 3>> :> 1000000 @@
    <<-4, 4>> :> 359000000 @@ <<-2, 4>> :> 359499962 @@
    <<0, 4>> :> 360000000 @@ <<2, 4>> :> 500038 @@ <<4, 4>> :> 1000000 @@
    <<-5, 5>> :> 359000000 @@ <<-3, 5>> :> 359399961 @@
    <<-1, 5>> :> 359799981 @@ <<1, 5>> :> 200019 @@ <<3, 5>> :> 600039 @@
    <<5, 5>> :> 1000000 @@
    <<-6, 6>> :> 359000000 @@ <<-4, 6>> :> 359333296 @@
    <<-2, 6>> :> 359666637 @@ <<0, 6>> :> 360000000 @@ <<2, 6>> :> 333363 @@
    <<4, 6>> :> 666704 @@ <<6, 6>> :> 1000000 @@
    <<-7, 7>> :> 359000000 @@ <<-5, 7>> :> 359285679 @@
    <<-3, 7>> :> 359571393 @@ <<-1, 7>> :> 359857129 @@ <<1, 7>> :> 142871 @@
    <<3, 7>> :> 428607 @@ <<5, 7>> :> 714321 @@ <<7, 7>> :> 1000000 @@
    <<-8, 8>> :> 359000000 @@ <<-6, 8>> :> 359249967 @@
    <<-4, 8>> :> 359499962 @@ <<-2, 8>> :> 359749976 @@
    <<0, 8>> :> 360000000 @@ <<2, 8>> :> 250024 @@ <<4, 8>> :> 500038 @@
    <<6, 8>> :> 750033 @@ <<8, 8>> :> 1000000

\* Lines 128-136 for a window of two headings that are neither opposite nor
\* 359 and 1: the direction halfway between them on the shorter arc.
Halfway(a, b) ==
    LET lo == Min(a % 360, b % 360)
        hi == Max(a % 360, b % 360)
    IN  IF hi - lo < 180
        THEN (lo + hi) * 500000
        ELSE ((lo + hi) * 500000 + 180000000) % 360000000

\* Lines 128-136: the smoothed heading of a window.
CompassMean(window) ==
    CASE CountOf(window, 359) + CountOf(window, 1) = Len(window) ->
            WrapMean[<<CountOf(window, 1) - CountOf(window, 359),
                       Len(window)>>]
      [] Len(window) = 1 -> (window[1] % 360) * 1000000
      [] Len(window) = 2 -> Halfway(window[1], window[2])

\* CompassFilter.update(heading), lines 119-137, on a window.
CompassUpdate(window, heading) ==
    LET pushed == Append(window, heading)
        kept == IF Len(pushed) > HeadingWindow THEN Tail(pushed) ELSE pushed
    IN  [window |-> kept, out |-> CompassMean(kept)]

\* ExponentialFilter.update(newValue) with alpha 0.15 (lines 46-53, 151),
\* on this.value; newValue is in whole degrees.
ExponentialUpdate(value, newValue) ==
    IF value = <<>>
    THEN << newValue * 100 >>
    ELSE << (15 * newValue * 100 + 85 * value[1]) \div 100 >>

\* Lines 166-168: one turn is added to a negative heading, and one taken
\* from a heading of 360 or more.
Wrapped(heading) ==
    LET raised == IF heading < 0 THEN heading + 360 ELSE heading
    IN  IF raised >= 360 THEN raised - 360 ELSE raised

\* A new OrientationSmoother, lines 149-154.
NewSmoother ==
    [headingFilter |-> <<>>, pitchFilter |-> <<>>, rollFilter |-> <<>>,
     calibrationOffset |-> 0]

\* The smoother of the state.
Smoother ==
    [headingFilter |-> headingFilter, pitchFilter |-> pitchFilter,
     rollFilter |-> rollFilter, calibrationOffset |-> calibrationOffset]

\* OrientationSmoother.update(orientation) on a smoother, lines 164-175:
\* the smoother after it and the value returned.
UpdatedSmoother(s, orientation) ==
    LET heading == Wrapped(orientation.alpha + s.calibrationOffset)
        h == CompassUpdate(s.headingFilter, heading)
        p == ExponentialUpdate(s.pitchFilter, orientation.beta)
        r == ExponentialUpdate(s.rollFilter, orientation.gamma)
    IN  [smoother |-> [headingFilter |-> h.window, pitchFilter |-> p,
                       rollFilter |-> r,
                       calibrationOffset |-> s.calibrationOffset],
         passed |-> heading,
         returned |-> [heading |-> h.out, pitch |-> p[1], roll |-> r[1]]]

\* No smoother is in use.
NoSmoother ==
    /\ headingFilter = NewSmoother.headingFilter
    /\ pitchFilter = NewSmoother.pitchFilter
    /\ rollFilter = NewSmoother.rollFilter
    /\ calibrationOffset = NewSmoother.calibrationOffset
    /\ smoothed = <<>>
    /\ smootherOp = ""
    /\ updates = 0

\* update(orientation), lines 164-175.
SmootherUpdate(orientation) ==
    LET u == UpdatedSmoother(Smoother, orientation)
    IN  /\ headingFilter' = u.smoother.headingFilter
        /\ pitchFilter' = u.smoother.pitchFilter
        /\ rollFilter' = u.smoother.rollFilter
        /\ smoothed' = << u.returned >>
        /\ smootherOp' = "update"
        /\ UNCHANGED calibrationOffset

\* setCalibrationOffset(offset), lines 181-183.
SetCalibrationOffset(offset) ==
    /\ calibrationOffset' = offset
    /\ smoothed' = <<>>
    /\ smootherOp' = "setCalibrationOffset"
    /\ UNCHANGED <<headingFilter, pitchFilter, rollFilter>>

\* reset(), lines 188-192, with CompassFilter.reset (lines 139-142) and
\* ExponentialFilter.reset (lines 56-58).
SmootherReset ==
    /\ headingFilter' = <<>>
    /\ pitchFilter' = <<>>
    /\ rollFilter' = <<>>
    /\ smoothed' = <<>>
    /\ smootherOp' = "reset"
    /\ UNCHANGED calibrationOffset

\* Raw orientations: a compass reading on either side of north and a tilt.
RawOrientations == [alpha : {359, 1}, beta : {0, 20}, gamma : {0}]

\* Raw orientations of a device that lies flat.
FlatOrientations == [alpha : {359, 1}, beta : {0}, gamma : {0}]

\* Calibration offsets: none, a declination, and a turn and a declination.
CalibrationOffsets == {0, 10, 370}

----------------------------------------------------------------------------
(* The geolocation service: Geolocator of src/src/core/geolocator.js and   *)
(* throttle of src/src/utils/sensors.js, lines 220-229.  The browser keeps *)
(* the position watches and the event listeners of window; a listener is   *)
(* identified by its type, its callback and its capture flag.  Times are   *)
(* in ms; the browser supports geolocation and device orientation.         *)

VARIABLES
    isTracking,         \* this.isTracking
    positionWatchId,    \* this.positionWatchId, 0 for null
    watches,            \* the ids of the position watches the browser runs
    locating,           \* the getCurrentPosition requests not yet answered
    orientationType,    \* the event type _startOrientationTracking listens to
    windowListeners,    \* the listeners of window with this.handleOrientation
    inThrottle,         \* inThrottle of the closure of throttle, line 221
    throttleTimer,      \* <<>> or << ms until the timer of line 226 is due >>
    sinceExecution,     \* ms since func last ran, kept at ThrottleLimit
    executionGap,       \* ms between the two latest runs of func, capped
    geoOp               \* what the last step of the service was

geolocatorVars == <<isTracking, positionWatchId, watches, locating,
                    orientationType, windowListeners, inThrottle,
                    throttleTimer, sinceExecution, executionGap, geoOp>>

\* geolocator.js line 21: throttle(this._handleOrientation.bind(this), 50).
ThrottleLimit == 50

\* The getCurrentPosition requests and the position watches a run may hold.
MaxLocating == 2

MaxWatches == 3

\* A new Geolocator in a browser, lines 8-21, before any event.
GeolocatorConstructed ==
    /\ isTracking = FALSE
    /\ positionWatchId = 0
    /\ watches = {}
    /\ locating = 0
    /\ windowListeners = {}
    /\ inThrottle = FALSE
    /\ throttleTimer = <<>>
    /\ sinceExecution = ThrottleLimit
    /\ executionGap = ThrottleLimit
    /\ geoOp = ""

\* Lines 242-246: 'ondeviceorientationabsolute' in window decides the type.
OrientationTypes == {"deviceorientationabsolute", "deviceorientation"}

\* The identity of a listener of window with the callback
\* this.handleOrientation: addEventListener and removeEventListener match
\* on the type and on the capture flag.
Registration(type, capture) == [type |-> type, capture |-> capture]

\* window.addEventListener(type, this.handleOrientation, capture).
AddEventListener(registered, type, capture) ==
    registered \cup {Registration(type, capture)}

\* window.removeEventListener(type, this.handleOrientation): the capture
\* flag of a call without a third argument is false.
RemoveEventListener(registered, type) ==
    registered \ {Registration(type, FALSE)}

\* navigator.geolocation.watchPosition: an id no running watch has.
FreshWatch ==
    CHOOSE id \in 1..(Cardinality(watches) + 1) : id \notin watches

\* Lines 84-98 and 181-189: the watch is started and its id stored, the
\* listener is added (_startOrientationTracking, lines 240-247) and the
\* promise chain sets isTracking in the microtasks of the same task.
Tracking ==
    /\ Cardinality(watches) < MaxWatches
    /\ positionWatchId' = FreshWatch
    /\ watches' = watches \cup {FreshWatch}
    /\ windowListeners' = AddEventListener(windowListeners, orientationType,
                                           TRUE)
    /\ isTracking' = TRUE

throttleVars == <<inThrottle, throttleTimer, sinceExecution, executionGap>>

\* start(), lines 40-58, up to the getCurrentPosition request of line 177.
GeoStart ==
    /\ geoOp' = "start"
    /\ isTracking \/ locating < MaxLocating
    /\ locating' = IF isTracking THEN locating ELSE locating + 1
    /\ UNCHANGED <<isTracking, positionWatchId, watches, orientationType,
                   windowListeners, throttleVars, smootherVars>>

\* The success callback of getCurrentPosition, lines 178-189, and the rest
\* of the chain of start(), lines 54-57.
PositionFound ==
    /\ locating > 0
    /\ geoOp' = "located"
    /\ locating' = locating - 1
    /\ Tracking
    /\ UNCHANGED <<orientationType, throttleVars, smootherVars>>

\* The error callback of getCurrentPosition, lines 191-195.
PositionFailed ==
    /\ locating > 0
    /\ geoOp' = "failed"
    /\ locating' = locating - 1
    /\ UNCHANGED <<isTracking, positionWatchId, watches, orientationType,
                   windowListeners, throttleVars, smootherVars>>

\* startWithPosition(position) with a valid position, lines 66-99.
StartWithPosition ==
    /\ geoOp' = "startWithPosition"
    /\ IF isTracking
       THEN UNCHANGED <<isTracking, positionWatchId, watches,
                        windowListeners>>
       ELSE Tracking
    /\ UNCHANGED <<locating, orientationType, throttleVars, smootherVars>>

\* stop(), lines 104-114.
GeoStop ==
    /\ geoOp' = "stop"
    /\ watches' = IF positionWatchId # 0 THEN watches \ {positionWatchId}
                  ELSE watches
    /\ positionWatchId' = 0
    /\ windowListeners' =
          RemoveEventListener(
              RemoveEventListener(windowListeners,
                                  "deviceorientationabsolute"),
              "deviceorientation")
    /\ isTracking' = FALSE
    /\ UNCHANGED <<locating, orientationType, throttleVars, smootherVars>>

\* Lines 254-264: the heading of an event, <<>> for null.
EventHeading(event) ==
    IF event.webkitCompassHeading # <<>> THEN event.webkitCompassHeading
    ELSE IF event.alpha # <<>> THEN << 360 - event.alpha[1] >>
    ELSE <<>>

\* _handleOrientation(event), lines 253-278.
HandleOrientation(event) ==
    IF EventHeading(event) = <<>>
    THEN /\ geoOp' = "ignored"
         /\ UNCHANGED smootherVars
    ELSE /\ geoOp' = "smoothed"
         /\ SmootherUpdate([alpha |-> EventHeading(event)[1],
                            beta |-> event.beta, gamma |-> event.gamma])
         /\ UNCHANGED updates

\* Variant of Throttling for a handler that is never held back.
NotThrottling(flag) == FALSE

\* Line 222: the test of inThrottle.
Throttling(flag) == flag

\* The browser dispatches a device orientation event to window: the
\* throttled handler of lines 221-228 runs when it is registered.
OrientationEvent(event) ==
    /\ \E registered \in windowListeners : registered.type = event.type
    /\ IF ~Throttling(inThrottle)
       THEN /\ HandleOrientation(event)
            /\ inThrottle' = TRUE
            /\ throttleTimer' = << ThrottleLimit >>
            /\ sinceExecution' = 0
            /\ executionGap' = sinceExecution
       ELSE /\ geoOp' = "discarded"
            /\ UNCHANGED <<throttleVars, smootherVars>>
    /\ UNCHANGED <<isTracking, positionWatchId, watches, locating,
                   orientationType, windowListeners>>

\* The timer of line 226 fires, not before it is due.
ThrottleTimerFires ==
    /\ throttleTimer = << 0 >>
    /\ geoOp' = "timer"
    /\ inThrottle' = FALSE
    /\ throttleTimer' = <<>>
    /\ UNCHANGED <<isTracking, positionWatchId, watches, locating,
                   orientationType, windowListeners, sinceExecution,
                   executionGap, smootherVars>>

\* d ms pass.
GeoAdvanceTime(d) ==
    /\ geoOp' = "time"
    /\ throttleTimer' = IF throttleTimer = <<>> THEN <<>>
                        ELSE << Max(throttleTimer[1] - d, 0) >>
    /\ sinceExecution' = Min(sinceExecution + d, ThrottleLimit)
    /\ UNCHANGED <<isTracking, positionWatchId, watches, locating,
                   orientationType, windowListeners, inThrottle,
                   executionGap, smootherVars>>

\* No geolocation service is in use.
NoGeolocator ==
    /\ GeolocatorConstructed
    /\ orientationType = "deviceorientation"

\* Device orientation events: with a compass heading of iOS, with an alpha
\* on either side of north, without a heading.
OrientationEvents ==
    [type : OrientationTypes, webkitCompassHeading : {<<>>, <<1>>},
     alpha : {<<>>, <<1>>, <<359>>}, beta : {0}, gamma : {0}]

\* The events of a device that points one degree west of north.
SteadyEvents ==
    { event \in OrientationEvents :
        event.webkitCompassHeading = <<>> /\ event.alpha # <<359>> }

\* The times between two events of the service.
SensorTimes == {20, 30, ThrottleLimit}

----------------------------------------------------------------------------
(* The label registry of the renderer: labelElements, the children of the  *)
(* container and the fade-out timers (overlay-renderer.js lines 118-158,   *)
(* 375-404, 549-559 and 595-603).  A label element is [id, poiId]: id      *)
(* numbers the elements in the order of their creation, poiId is its       *)
(* dataset.poiId.  The due time of a timer is relative to the current      *)
(* instant.                                                                *)

VARIABLES
    labelElements,    \* this.labelElements: POI id -> the id of its element
    container,        \* the label elements that are children of the container
    fadeTimers,       \* the timers of _fadeOutLabel that have not fired
    created,          \* the number of label elements created so far
    activeIds,        \* the keys of this.activePOIs
    sinceFrame,       \* TRUE when time has passed since the last frame
    lastFade          \* <<>>, or << what the timer of the last step did >>

labelVars == <<labelElements, container, fadeTimers, created, activeIds,
               sinceFrame, lastFade>>

\* The delay of the timer of _fadeOutLabel, line 558.
FadeOutDelay == 300

\* The POIs the labels are made for.
LabelIds == {1, 2}

\* The label elements a behaviour creates.
MaxCreated == 3

\* The times between two events of the registry.
LabelTimes == {150}

\* Lines 29 and 30: a new renderer has no label and no POI.
LabelsConstructed ==
    /\ labelElements = EmptyMap
    /\ container = {}
    /\ fadeTimers = {}
    /\ created = 0
    /\ activeIds = {}
    /\ sinceFrame = TRUE
    /\ lastFade = <<>>

NoLabels == LabelsConstructed

\* _fadeOutLabel(poiId, element), lines 549-559, for each POI of a set: a
\* timer that holds the POI id and the element; mark is the number of
\* elements created before the timer was scheduled.
FadeOutLabels(timers, ids) ==
    timers \cup { [poiId |-> p, element |-> labelElements[p],
                   due |-> FadeOutDelay, mark |-> created] :
                  p \in ids \cap DOMAIN labelElements }

\* The id of the element _updateDOM creates for POI p, when it creates one
\* for each POI of missing in the order of the display list.
NewElement(missing, p) ==
    created + Cardinality({ q \in missing : q <= p })

\* _updateDOM(displayPOIs), lines 375-404, for the POI ids of displayPOIs:
\* every registered label out of the display set fades out (lines 379-384);
\* a POI of the display set without registered label gets a new element,
\* registered and appended to the container (lines 388-393).
UpdateDOM(display) ==
    LET missing == display \ DOMAIN labelElements
    IN  /\ sinceFrame
        /\ created + Cardinality(missing) <= MaxCreated
        /\ fadeTimers' = FadeOutLabels(fadeTimers,
                                       DOMAIN labelElements \ display)
        /\ labelElements' =
              [p \in DOMAIN labelElements \cup missing |->
                  IF p \in missing THEN NewElement(missing, p)
                  ELSE labelElements[p]]
        /\ container' =
              container
              \cup { [id |-> NewElement(missing, p), poiId |-> p] :
                     p \in missing }
        /\ created' = created + Cardinality(missing)
        /\ sinceFrame' = FALSE
        /\ lastFade' = <<>>
        /\ UNCHANGED activeIds

\* updatePOIs(pois), lines 118-158, for the ids of pois: the POIs are the
\* active ones, and _removePOI (lines 595-603) fades out the registered
\* label of each POI that is no longer in the list.
UpdateLabelPOIs(ids) ==
    /\ ids # activeIds
    /\ fadeTimers' = FadeOutLabels(fadeTimers, activeIds \ ids)
    /\ activeIds' = ids
    /\ lastFade' = <<>>
    /\ UNCHANGED <<labelElements, container, created, sinceFrame>>

\* this.labelElements.delete(poiId), line 557.
Unregistered(registry, timer) ==
    [p \in DOMAIN registry \ {timer.poiId} |-> registry[p]]

\* The callback of the timer of _fadeOutLabel, lines 554-557: the timer's
\* element leaves the container when it is a child of it, and the entry of
\* the timer's POI id leaves labelElements.
FadeTimerFires(timer) ==
    /\ timer \in fadeTimers
    /\ timer.due = 0
    /\ fadeTimers' = fadeTimers \ {timer}
    /\ container' =
          container \ { [id |-> timer.element, poiId |-> timer.poiId] }
    /\ labelElements' = Unregistered(labelElements, timer)
    /\ lastFade' =
          << [timer |-> timer,
              removed |-> IF timer.poiId \in DOMAIN labelElements
                             /\ timer.poiId
                                  \notin DOMAIN labelElements'
                          THEN <<labelElements[timer.poiId]>>
                          ELSE <<>>] >>
    /\ UNCHANGED <<created, activeIds, sinceFrame>>

\* d ms pass; a timer that is due fires before time passes.
LabelTimePasses(d) ==
    /\ \A t \in fadeTimers : d <= t.due
    /\ fadeTimers' = { [t EXCEPT !.due = @ - d] : t \in fadeTimers }
    /\ sinceFrame' = TRUE
    /\ lastFade' = <<>>
    /\ UNCHANGED <<labelElements, container, created, activeIds>>

----------------------------------------------------------------------------
(* The article client: WikiClient._fetchWithBackoff of                     *)
(* src/src/core/wiki-client.js, lines 122-159.  The call and its recursive *)
(* calls are a stack of activations; an activation is the retryCount it    *)
(* was called with.  The stack holds the running activation on top of the  *)
(* activations whose try block awaits it, so that their catch block sees   *)
(* its rejection.  An error is known by whether it has a status.           *)

VARIABLES
    maxRetries,       \* this.maxRetries
    activations,      \* the stack of activations, the running one last
    lookup,           \* what the running activation waits for, or the end
    sleepLeft,        \* the time left of the _sleep of the activation
    issued,           \* the number of fetch() calls of the lookup
    outcomes          \* what ended each attempt of the lookup so far

wikiVars == <<maxRetries, activations, lookup, sleepLeft, issued, outcomes>>

\* Line 10.
initialBackoffMs == 1000

\* The fetch() calls a lookup of the model may issue.
MaxIssued == 6

\* options.maxRetries of the constructor: undefined, 0 and positive numbers.
RetryOptions == {<<>>, <<0>>, <<1>>, <<2>>, <<3>>}

\* The statuses of the article service.
WikiStatuses == {200, 404, 429, 500}

\* Line 9: options.maxRetries || 3.
WikiConstructed(options) ==
    /\ maxRetries = IF options = <<>> \/ options[1] = 0 THEN 3
                    ELSE options[1]
    /\ activations = <<>>
    /\ lookup = "idle"
    /\ sleepLeft = 0
    /\ issued = 0
    /\ outcomes = <<>>

NoWiki == WikiConstructed(<<>>)

\* The running activation.
Running == activations[Len(activations)]

\* retryCount < this.maxRetries, lines 134 and 150.
RetryAllowed(retryCount) == retryCount < maxRetries

\* Lines 135 and 151.
BackoffTime(retryCount) == initialBackoffMs * Pow2(retryCount)

\* Variant of AwaitedInTry in which the try block awaits the recursive call
\* of line 138 (return await).
ReturnAwaited(site) == site = "sleepInTry"

\* Whether the block of a sleep awaits the recursive call it returns (lines
\* 138 and 154) inside a try: both return the promise without await, so
\* that no catch block of the activation sees its rejection.
AwaitedInTry(site) == FALSE

\* The first call of a lookup, from fetchByTitle (line 37): fetch() of line
\* 124.
FetchWithBackoff ==
    /\ lookup = "idle"
    /\ activations' = <<0>>
    /\ lookup' = "fetching"
    /\ issued' = 1
    /\ UNCHANGED <<maxRetries, sleepLeft, outcomes>>

\* The stack after an error reaches the catch block of the running
\* activation (lines 148-158): the activation sleeps and retries when its
\* count allows and the error has no status; otherwise it rethrows, its
\* promise rejects, and the catch block of the activation that awaits it
\* sees the same error.
RECURSIVE Thrown(_, _)
Thrown(stack, hasStatus) ==
    IF stack = <<>> THEN <<>>
    ELSE IF RetryAllowed(stack[Len(stack)]) /\ ~hasStatus THEN stack
    ELSE Thrown(SubSeq(stack, 1, Len(stack) - 1), hasStatus)

\* An error is thrown in the try block of the running activation.
Throw(hasStatus, outcome) ==
    LET stack == Thrown(activations, hasStatus)
    IN  /\ activations' = stack
        /\ lookup' = IF stack = <<>> THEN "rejected" ELSE "sleepInCatch"
        /\ sleepLeft' = IF stack = <<>> THEN 0
                        ELSE BackoffTime(stack[Len(stack)])
        /\ outcomes' = Append(outcomes, outcome)
        /\ UNCHANGED <<maxRetries, issued>>

\* fetch() resolves with a response, lines 132-145.
WikiResponse(status) ==
    /\ lookup = "fetching"
    /\ IF status = 200
       THEN /\ lookup' = "body"
            /\ UNCHANGED <<maxRetries, activations, sleepLeft, issued,
                           outcomes>>
       ELSE IF status = 429 /\ RetryAllowed(Running)
       THEN /\ lookup' = "sleepInTry"
            /\ sleepLeft' = BackoffTime(Running)
            /\ outcomes' = Append(outcomes, "rate limit")
            /\ UNCHANGED <<maxRetries, activations, issued>>
       ELSE Throw(TRUE, IF status = 429 THEN "rate limit" ELSE "status")

\* fetch() rejects: a network failure, an error without status.
WikiNetworkFailure ==
    /\ lookup = "fetching"
    /\ Throw(FALSE, "network")

\* response.json() resolves, line 145.
WikiBodyRead ==
    /\ lookup = "body"
    /\ lookup' = "resolved"
    /\ activations' = <<>>
    /\ UNCHANGED <<maxRetries, sleepLeft, issued, outcomes>>

\* response.json() rejects, line 145: a SyntaxError, without status.
WikiBodyFails ==
    /\ lookup = "body"
    /\ Throw(FALSE, "body")

\* The _sleep of line 137 or of line 153 ends, and the activation returns
\* the recursive call (lines 138 and 154), which calls fetch().  The call
\* of line 154 is in the catch block, where no handler is left.
SleepEnds ==
    /\ lookup \in {"sleepInTry", "sleepInCatch"}
    /\ sleepLeft = 0
    /\ issued < MaxIssued
    /\ activations' =
          IF AwaitedInTry(lookup)
          THEN Append(activations, Running + 1)
          ELSE Append(SubSeq(activations, 1, Len(activations) - 1),
                      Running + 1)
    /\ lookup' = "fetching"
    /\ issued' = issued + 1
    /\ UNCHANGED <<maxRetries, sleepLeft, outcomes>>

\* d ms of a _sleep pass.
WikiTimePasses(d) ==
    /\ lookup \in {"sleepInTry", "sleepInCatch"}
    /\ d <= sleepLeft
    /\ sleepLeft' = sleepLeft - d
    /\ UNCHANGED <<maxRetries, activations, lookup, issued, outcomes>>

\* The times between two events of a lookup.
WikiTimes == {1000, 2000, 4000}

----------------------------------------------------------------------------
(* Specifications.                                                         *)

\* The geolocation service.
serviceVars == <<geolocatorVars, labelVars, wikiVars>>

\* No service is in use.
NoService == NoGeolocator /\ NoLabels /\ NoWiki

\* The projection, the renderer, the smoother and the services.
engineVars == <<projectionVars, rendererVars, smootherVars, serviceVars>>

vars == <<detectorVars, attemptAge, appVars, recordVars, layoutVars,
          engineVars>>

\* No call of projectToScreen is followed, and a new renderer and a new
\* smoother are idle.
NoEngine ==
    NoProjection /\ RendererConstructed /\ NoSmoother /\ NoService

\* No application uses the detector, no record is parsed on its own and no
\* frame is laid out.
NoApp == UNCHANGED <<appVars, recordVars, layoutVars, engineVars>>

\* The age of attempts is not recorded.
NoAge == UNCHANGED attemptAge

\* The application parses no record on its own and lays out no frame.
AppOnly == UNCHANGED <<attemptAge, recordVars, layoutVars, engineVars>>

\* A new POIDetector, and the events of the run bounded by one of Budgets.
Init ==
    /\ Constructed
    /\ NoEngine
    /\ budget \in Budgets
    /\ attemptAge = EmptyMap
    /\ AppConstructed
    /\ NoRecord
    /\ NoFrame

\* The timers of the detector fire when they are due and time reaches the
\* next deadline; every attempt that awaits fetch() is answered or aborted by
\* its timeout, and every body that is read arrives or fails.
TimersRun ==
    \/ \E r \in DOMAIN requests : RateTimerFires(r) /\ NoApp /\ NoAge
    \/ \E r \in DOMAIN requests : BackoffFires(r) /\ NoApp /\ NoAge
    \/ \E d \in Deadlines : AdvanceTime(d) /\ NoApp /\ NoAge

AttemptsEnd ==
    \/ \E r \in DOMAIN requests, status \in Statuses :
          Response(r, status) /\ NoApp /\ NoAge
    \/ \E r \in DOMAIN requests, msg \in NetworkMessages :
          NetworkFailure(r, msg) /\ NoApp /\ NoAge
    \/ \E r \in DOMAIN requests : Timeout(r) /\ NoApp /\ NoAge
    \/ \E r \in DOMAIN requests, elements \in Bodies :
          BodyRead(r, elements) /\ NoApp /\ NoAge
    \/ \E r \in DOMAIN requests : BodyFails(r) /\ NoApp /\ NoAge

\* A new POIDetector that takes BurstCalls calls and sees no failure.
InitBurst ==
    /\ Constructed
    /\ NoEngine
    /\ budget = [calls |-> BurstCalls, failures |-> 0]
    /\ attemptAge = EmptyMap
    /\ AppConstructed
    /\ NoRecord
    /\ NoFrame

\* The POIDetector under arbitrary callers.
Next ==
    \/ \E input \in CallInputs :
          Call(input[1], input[2], input[3]) /\ NoApp /\ NoAge
    \/ \E r \in DOMAIN requests : RateTimerFires(r) /\ NoApp /\ NoAge
    \/ \E r \in DOMAIN requests : BackoffFires(r) /\ NoApp /\ NoAge
    \/ \E r \in DOMAIN requests, status \in Statuses :
          Response(r, status) /\ NoApp /\ NoAge
    \/ \E r \in DOMAIN requests, msg \in NetworkMessages :
          NetworkFailure(r, msg) /\ NoApp /\ NoAge
    \/ \E r \in DOMAIN requests : Timeout(r) /\ NoApp /\ NoAge
    \/ \E r \in DOMAIN requests, elements \in Bodies :
          BodyRead(r, elements) /\ NoApp /\ NoAge
    \/ \E r \in DOMAIN requests : BodyFails(r) /\ NoApp /\ NoAge
    \/ ClearCache /\ NoApp /\ NoAge
    \/ \E d \in Instants : AdvanceTime(d) /\ NoApp /\ NoAge

Spec == Init /\ [][Next]_vars

\* Callers that ask for two locations of one cache cell, for another cell
\* and with an invalid latitude.
SettleInputs ==
    { <<485000, 23000, 5000>>, <<484996, 23000, 5000>>,
      <<485020, 23000, 5000>>, <<900001, 23000, 5000>> }

InitSettle ==
    /\ Constructed
    /\ NoEngine
    /\ budget \in { b \in Budgets : b.failures > 0 }
    /\ attemptAge = EmptyMap
    /\ AppConstructed
    /\ NoRecord
    /\ NoFrame

NextSettle ==
    \/ \E input \in SettleInputs :
          Call(input[1], input[2], input[3]) /\ NoApp /\ NoAge
    \/ \E r \in DOMAIN requests : RateTimerFires(r) /\ NoApp /\ NoAge
    \/ \E r \in DOMAIN requests : BackoffFires(r) /\ NoApp /\ NoAge
    \/ \E r \in DOMAIN requests, status \in Statuses :
          Response(r, status) /\ NoApp /\ NoAge
    \/ \E r \in DOMAIN requests, msg \in NetworkMessages :
          NetworkFailure(r, msg) /\ NoApp /\ NoAge
    \/ \E r \in DOMAIN requests : Timeout(r) /\ NoApp /\ NoAge
    \/ \E r \in DOMAIN requests, elements \in Bodies :
          BodyRead(r, elements) /\ NoApp /\ NoAge
    \/ \E r \in DOMAIN requests : BodyFails(r) /\ NoApp /\ NoAge
    \/ \E d \in Deadlines : AdvanceTime(d) /\ NoApp /\ NoAge

\* The POIDetector under fair timers and a provider that ends every attempt.
SpecSettle ==
    InitSettle /\ [][NextSettle]_vars
        /\ WF_vars(TimersRun) /\ WF_vars(AttemptsEnd)

\* The runs of a burst of calls that the provider answers without failure.
NextBurst ==
    \/ \E input \in CallInputs :
          Call(input[1], input[2], input[3]) /\ NoApp /\ NoAge
    \/ \E r \in DOMAIN requests : RateTimerFires(r) /\ NoApp /\ NoAge
    \/ \E r \in DOMAIN requests : Response(r, 200) /\ NoApp /\ NoAge
    \/ \E r \in DOMAIN requests, elements \in Bodies :
          BodyRead(r, elements) /\ NoApp /\ NoAge
    \/ \E d \in Instants : AdvanceTime(d) /\ NoApp /\ NoAge

SpecBurst == InitBurst /\ [][NextBurst]_vars

\* The application and its POIDetector: _updatePOIs is the only caller, and
\* the application never calls clearCache.
NextApp ==
    \/ \E position \in AppPositions : UpdatePOIs(position) /\ AppOnly
    \/ \E r \in DOMAIN requests : RateTimerFires(r) /\ AppContinues /\ AppOnly
    \/ \E r \in DOMAIN requests : BackoffFires(r) /\ AppContinues /\ AppOnly
    \/ \E r \in DOMAIN requests, status \in Statuses :
          Response(r, status) /\ AppContinues /\ AppOnly
    \/ \E r \in DOMAIN requests, msg \in NetworkMessages :
          NetworkFailure(r, msg) /\ AppContinues /\ AppOnly
    \/ \E r \in DOMAIN requests : Timeout(r) /\ AppContinues /\ AppOnly
    \/ \E r \in DOMAIN requests, elements \in Bodies :
          BodyRead(r, elements) /\ AppContinues /\ AppOnly
    \/ \E r \in DOMAIN requests : BodyFails(r) /\ AppContinues /\ AppOnly
    \/ \E d \in AppInstants : AppAdvanceTime(d) /\ AppOnly

SpecApp == Init /\ [][NextApp]_vars

\* _parseElement applied to one of Records.
InitRecords ==
    /\ Constructed
    /\ NoEngine
    /\ budget = [calls |-> 0, failures |-> 0]
    /\ attemptAge = EmptyMap
    /\ AppConstructed
    /\ element \in Records
    /\ parsed = <<>>
    /\ NoFrame

NextRecords ==
    ParseRecord /\ UNCHANGED <<detectorVars, attemptAge, appVars, layoutVars,
                             engineVars>>

SpecRecords == InitRecords /\ [][NextRecords]_vars

\* A detector whose provider answers every request with a response that
\* holds malformed records.
InitMalformed ==
    /\ Constructed
    /\ NoEngine
    /\ budget = [calls |-> MaxCalls, failures |-> 0]
    /\ attemptAge = EmptyMap
    /\ AppConstructed
    /\ NoRecord
    /\ NoFrame

NextMalformed ==
    \/ \E input \in CallInputs :
          Call(input[1], input[2], input[3]) /\ NoApp /\ NoAge
    \/ \E r \in DOMAIN requests : RateTimerFires(r) /\ NoApp /\ NoAge
    \/ \E r \in DOMAIN requests : Response(r, 200) /\ NoApp /\ NoAge
    \/ \E r \in DOMAIN requests, elements \in MalformedBodies :
          BodyRead(r, elements) /\ NoApp /\ NoAge
    \/ \E d \in Instants : AdvanceTime(d) /\ NoApp /\ NoAge

SpecMalformed == InitMalformed /\ [][NextMalformed]_vars

\* The requests whose provider attempt is running: fetch() is pending or
\* the body of the response is being read.
Attempting(reqs) == { r \in DOMAIN reqs : reqs[r].pc \in {"fetching", "body"} }

\* The age of every running attempt after a step that took d ms: 0 for an
\* attempt issued by the step; ages beyond REQUEST_TIMEOUT are kept at
\* REQUEST_TIMEOUT + 1.
AgeTracked(d) ==
    attemptAge' = [r \in Attempting(requests') |->
                      IF r \in DOMAIN attemptAge
                      THEN Min(attemptAge[r] + d, REQUEST_TIMEOUT + 1)
                      ELSE 0]

\* The instants at which a response whose body is being read is as old as
\* REQUEST_TIMEOUT, and a millisecond older.
BodyInstants ==
    { REQUEST_TIMEOUT - attemptAge[r] + e :
        r \in { q \in DOMAIN attemptAge : requests[q].pc = "body" },
        e \in {0, 1} }

\* The POIDetector under arbitrary callers, with the age of its attempts.
NextTimeout ==
    \/ \E input \in CallInputs :
          Call(input[1], input[2], input[3]) /\ NoApp /\ AgeTracked(0)
    \/ \E r \in DOMAIN requests : RateTimerFires(r) /\ NoApp /\ AgeTracked(0)
    \/ \E r \in DOMAIN requests : BackoffFires(r) /\ NoApp /\ AgeTracked(0)
    \/ \E r \in DOMAIN requests, status \in Statuses :
          Response(r, status) /\ NoApp /\ AgeTracked(0)
    \/ \E r \in DOMAIN requests, msg \in NetworkMessages :
          NetworkFailure(r, msg) /\ NoApp /\ AgeTracked(0)
    \/ \E r \in DOMAIN requests : Timeout(r) /\ NoApp /\ AgeTracked(0)
    \/ \E r \in DOMAIN requests, elements \in Bodies :
          BodyRead(r, elements) /\ NoApp /\ AgeTracked(0)
    \/ \E r \in DOMAIN requests : BodyFails(r) /\ NoApp /\ AgeTracked(0)
    \/ \E d \in Instants \cup BodyInstants :
          AdvanceTime(d) /\ NoApp /\ AgeTracked(d)

SpecTimeout == Init /\ [][NextTimeout]_vars

\* One frame of Frames, projected and then laid out.
InitLayout ==
    /\ Constructed
    /\ NoEngine
    /\ budget = [calls |-> 0, failures |-> 0]
    /\ attemptAge = EmptyMap
    /\ AppConstructed
    /\ NoRecord
    /\ \E f \in Frames :
          /\ screenHeight = f.height
          /\ maxLabels = f.maxLabels
          /\ visiblePOIs = f.visible
    /\ displayPOIs = <<>>
    /\ finalPOIs = <<>>
    /\ frameLog = <<>>
    /\ frame = "projected"

NextLayout ==
    UpdateFrame /\ UNCHANGED <<detectorVars, attemptAge, appVars, recordVars,
                             engineVars>>

SpecLayout == InitLayout /\ [][NextLayout]_vars

\* A new renderer on the screen of the model, as the application constructs
\* it (main.js lines 141-153), with no frame laid out.
InitRenderer ==
    /\ Constructed
    /\ budget = [calls |-> 0, failures |-> 0]
    /\ attemptAge = EmptyMap
    /\ AppConstructed
    /\ NoRecord
    /\ NoProjection
    /\ NoSmoother
    /\ NoService
    /\ RendererConstructed
    /\ screenHeight = ScreenDimensions.height
    /\ maxLabels = AppMaxLabels
    /\ visiblePOIs = <<>>
    /\ displayPOIs = <<>>
    /\ finalPOIs = <<>>
    /\ frameLog = <<>>
    /\ frame = "none"

\* Only the renderer runs.
RendererOnly ==
    UNCHANGED <<detectorVars, attemptAge, isFetchingPOIs, lastFetchedPOIs,
                lastPOIFetchTime, awaited, atCall, refresh, recordVars,
                projectionVars, smootherVars, serviceVars>>

\* The renderer under its callers, the browser's animation frames and the
\* passage of time.
NextRenderer ==
    \/ Start /\ RendererOnly
    \/ Stop /\ RendererOnly
    \/ Destroy /\ RendererOnly
    \/ \E id \in scheduled : FrameCallback(id) /\ RendererOnly
    \/ \E position \in AppPositions :
          UpdateUserPosition(position) /\ RendererOnly
    \/ \E orientation \in Orientations :
          UpdateDeviceOrientation(orientation) /\ RendererOnly
    \/ \E distance \in MaxDistances :
          UpdateMaxDistance(distance) /\ RendererOnly
    \/ \E n \in LabelCaps : SetMaxLabels(n) /\ RendererOnly
    \/ \E pois \in FetchedLists : SetPOIs(pois) /\ RendererOnly
    \/ \E d \in FrameTimes : RendererAdvanceTime(d) /\ RendererOnly

SpecRenderer == InitRenderer /\ [][NextRenderer]_vars

\* One call of projectToScreen with one of Projections.
InitProjection ==
    /\ Constructed
    /\ budget = [calls |-> 0, failures |-> 0]
    /\ attemptAge = EmptyMap
    /\ AppConstructed
    /\ NoRecord
    /\ NoFrame
    /\ RendererConstructed
    /\ NoSmoother
    /\ NoService
    /\ projected \in Projections
    /\ screenPos = <<>>

NextProjection ==
    Project /\ UNCHANGED <<detectorVars, attemptAge, appVars, recordVars,
                           layoutVars, rendererVars, smootherVars,
                           serviceVars>>

SpecProjection == InitProjection /\ [][NextProjection]_vars

\* Only the smoother runs.
SmootherOnly ==
    UNCHANGED <<detectorVars, attemptAge, appVars, recordVars, layoutVars,
                projectionVars, rendererVars, serviceVars>>

\* A smoother that is calibrated, reset and fed at most MaxUpdates raw
\* orientations.
NextSmoother ==
    \/ \E orientation \in RawOrientations :
          /\ updates < MaxUpdates
          /\ SmootherUpdate(orientation)
          /\ updates' = updates + 1
          /\ SmootherOnly
    \/ \E offset \in CalibrationOffsets :
          SetCalibrationOffset(offset) /\ UNCHANGED updates /\ SmootherOnly
    \/ SmootherReset /\ UNCHANGED updates /\ SmootherOnly

SpecSmoother == Init /\ [][NextSmoother]_vars

\* An uncalibrated smoother fed compass readings of 359 and 1 degrees in
\* any order, for any length of time.
NextCompass ==
    \E orientation \in FlatOrientations :
        SmootherUpdate(orientation) /\ UNCHANGED updates /\ SmootherOnly

SpecCompass == Init /\ [][NextCompass]_vars

\* Only the geolocation service and its smoother run.
GeolocatorOnly ==
    UNCHANGED <<detectorVars, attemptAge, appVars, recordVars, layoutVars,
                projectionVars, rendererVars, labelVars, wikiVars>>

\* A new Geolocator in a browser with or without absolute orientation
\* events.
InitGeolocator ==
    /\ Constructed
    /\ budget = [calls |-> 0, failures |-> 0]
    /\ attemptAge = EmptyMap
    /\ AppConstructed
    /\ NoRecord
    /\ NoFrame
    /\ NoProjection
    /\ RendererConstructed
    /\ NoSmoother
    /\ NoLabels
    /\ NoWiki
    /\ GeolocatorConstructed
    /\ orientationType \in OrientationTypes

\* The service under its callers, the answers of the browser to
\* getCurrentPosition, the orientation events of a steady device, the
\* timer of the throttle and the passage of time.
NextGeolocator ==
    \/ GeoStart /\ GeolocatorOnly
    \/ PositionFound /\ GeolocatorOnly
    \/ PositionFailed /\ GeolocatorOnly
    \/ StartWithPosition /\ GeolocatorOnly
    \/ GeoStop /\ GeolocatorOnly
    \/ \E event \in SteadyEvents : OrientationEvent(event) /\ GeolocatorOnly
    \/ ThrottleTimerFires /\ GeolocatorOnly
    \/ \E d \in SensorTimes : GeoAdvanceTime(d) /\ GeolocatorOnly

SpecGeolocator == InitGeolocator /\ [][NextGeolocator]_vars

\* A Geolocator that startWithPosition has started.
InitThrottle ==
    /\ Constructed
    /\ budget = [calls |-> 0, failures |-> 0]
    /\ attemptAge = EmptyMap
    /\ AppConstructed
    /\ NoRecord
    /\ NoFrame
    /\ NoProjection
    /\ RendererConstructed
    /\ NoSmoother
    /\ NoLabels
    /\ NoWiki
    /\ isTracking = TRUE
    /\ positionWatchId = 1
    /\ watches = {1}
    /\ locating = 0
    /\ orientationType \in OrientationTypes
    /\ windowListeners = AddEventListener({}, orientationType, TRUE)
    /\ inThrottle = FALSE
    /\ throttleTimer = <<>>
    /\ sinceExecution = ThrottleLimit
    /\ executionGap = ThrottleLimit
    /\ geoOp = "startWithPosition"

\* The throttled orientation handler of a tracking service under the
\* orientation events of the browser, its timer and the passage of time.
NextThrottle ==
    \/ \E event \in OrientationEvents :
          OrientationEvent(event) /\ GeolocatorOnly
    \/ ThrottleTimerFires /\ GeolocatorOnly
    \/ \E d \in SensorTimes : GeoAdvanceTime(d) /\ GeolocatorOnly

SpecThrottle == InitThrottle /\ [][NextThrottle]_vars

\* The steps of the label registry leave the rest alone.
LabelsOnly ==
    UNCHANGED <<detectorVars, attemptAge, appVars, recordVars, layoutVars,
                projectionVars, rendererVars, smootherVars, geolocatorVars,
                wikiVars>>

\* A new renderer.
InitLabels ==
    /\ Constructed
    /\ budget = [calls |-> 0, failures |-> 0]
    /\ attemptAge = EmptyMap
    /\ AppConstructed
    /\ NoRecord
    /\ NoFrame
    /\ NoEngine

\* The label registry under the application's POI lists, the frames of the
\* rendering loop with any display set of active POIs, the fade-out timers
\* and the passage of time.
NextLabels ==
    \/ \E ids \in SUBSET LabelIds : UpdateLabelPOIs(ids) /\ LabelsOnly
    \/ \E display \in SUBSET activeIds : UpdateDOM(display) /\ LabelsOnly
    \/ \E timer \in fadeTimers : FadeTimerFires(timer) /\ LabelsOnly
    \/ \E d \in LabelTimes : LabelTimePasses(d) /\ LabelsOnly

SpecLabels == InitLabels /\ [][NextLabels]_vars

\* The steps of the article client leave the rest alone.
WikiOnly ==
    UNCHANGED <<detectorVars, attemptAge, appVars, recordVars, layoutVars,
                projectionVars, rendererVars, smootherVars, geolocatorVars,
                labelVars>>

\* A new WikiClient, constructed with or without options.maxRetries.
InitWiki ==
    /\ Constructed
    /\ budget = [calls |-> 0, failures |-> 0]
    /\ attemptAge = EmptyMap
    /\ AppConstructed
    /\ NoRecord
    /\ NoFrame
    /\ NoProjection
    /\ RendererConstructed
    /\ NoSmoother
    /\ NoGeolocator
    /\ NoLabels
    /\ \E options \in RetryOptions : WikiConstructed(options)

\* One lookup of the article client under every answer of the service, the
\* timers of _sleep and the passage of time.
NextWiki ==
    \/ FetchWithBackoff /\ WikiOnly
    \/ \E status \in WikiStatuses : WikiResponse(status) /\ WikiOnly
    \/ WikiNetworkFailure /\ WikiOnly
    \/ WikiBodyRead /\ WikiOnly
    \/ WikiBodyFails /\ WikiOnly
    \/ SleepEnds /\ WikiOnly
    \/ \E d \in WikiTimes : WikiTimePasses(d) /\ WikiOnly

SpecWiki == InitWiki /\ [][NextWiki]_vars

----------------------------------------------------------------------------
(* Properties.                                                             *)

\* The call of the last step, when that step was a call.
TheCall == lastCall[1]

\* The request promise the last event but calls settled.
TheSettled == settled[1]

\* C1: at most one provider fetch, retries included, is outstanding for a
\* cache key at any time, and a call that arrives while a request for its
\* key is in flight waits on that request and issues none of its own.
C1_Coalescing ==
    /\ \A r1, r2 \in DOMAIN requests :
          requests[r1].key = requests[r2].key => r1 = r2
    /\ (lastCall # <<>> /\ TheCall.kind = "joined") =>
          /\ TheCall.req \in DOMAIN requests
          /\ requests[TheCall.req].key = TheCall.key

\* A call joined the request for its key while that request was waiting for
\* a retry.
C1_Witness ==
    /\ lastCall # <<>>
    /\ TheCall.kind = "joined"
    /\ TheCall.req \in DOMAIN requests
    /\ requests[TheCall.req].pc = "backoff"

\* C2: of the calls made at one instant whose arguments map to one cache
\* key, only the first can start a provider fetch; all the others hold the
\* same request promise, so they settle with its outcome, or all are served
\* the same cached list.
C2_Simultaneous ==
    \A i, j \in 1..Len(burst) :
        (i < j /\ burst[i].key = burst[j].key) =>
            IF burst[i].kind = "cache"
            THEN burst[j].kind = "cache" /\ burst[j].value = burst[i].value
            ELSE /\ burst[j].kind = "joined"
                 /\ burst[j].req = burst[i].req
                 /\ burst[i].req \in DOMAIN requests
                 /\ requests[burst[i].req].key = burst[i].key

\* Two calls at one instant with different coordinates of one cell: the
\* first started the fetch, the second joined it.
C2_Witness ==
    /\ Len(burst) = 2
    /\ burst[1].kind = "started"
    /\ burst[2].kind = "joined"
    /\ burst[2].req = burst[1].req
    /\ lastCall # <<>>
    /\ TheCall.lat = 484996

\* C3: any two provider requests of one POIDetector are issued at least
\* MIN_REQUEST_INTERVAL (1000 ms) apart.
C3_Throttle == issueGap >= 1000

\* C4: one fetchNearbyPOIs call issues at most 3 provider requests, stated
\* for a provider that fails with status 429 only.
C4_RetryBudget ==
    \A r \in DOMAIN requests : requests[r].only429 => requests[r].issued <= 3

\* C5: a fetch whose attempts 1 and 2 failed with status 429 starts attempt
\* 2 at least 2000 ms after attempt 1 failed and attempt 3 at least 4000 ms
\* after attempt 2 failed, and when attempt 3 delivers its body the request
\* resolves with the POI list parsed from that body.
C5_Backoff ==
    [][ /\ \A r \in DOMAIN requests \cap DOMAIN requests' :
              ( /\ requests[r].pc # "fetching"
                /\ requests'[r].pc = "fetching"
                /\ requests'[r].only429 ) =>
                  /\ requests'[r].retryCount = 1 =>
                        Now - requests[r].failedAt >= 2000
                  /\ requests'[r].retryCount = 2 =>
                        Now - requests[r].failedAt >= 4000
        /\ \A r \in DOMAIN requests \ DOMAIN requests' :
              ( /\ requests[r].pc = "body"
                /\ requests[r].only429
                /\ requests[r].issued = 3
                /\ settled'[1].elements # <<>> ) =>
                  /\ settled'[1].pc = "resolved"
                  /\ settled'[1].result =
                        ParsePOIs(settled'[1].elements, requests[r].lat,
                                  requests[r].lng).pois
      ]_vars

\* A request resolved with a POI list on its third attempt after two 429s.
C5_Witness ==
    /\ settled # <<>>
    /\ TheSettled.pc = "resolved"
    /\ TheSettled.only429
    /\ TheSettled.issued = 3
    /\ TheSettled.retryCount = 2
    /\ TheSettled.result # <<>>

\* C6: after a client-error status (4xx other than 429) there is no backoff
\* wait and no retry: no request waits for a timer with such a status as
\* its last failure.
C6_ClientErrorFinal ==
    \A r \in DOMAIN requests :
        ( /\ requests[r].lastStatus >= 400
          /\ requests[r].lastStatus <= 499
          /\ requests[r].lastStatus # 429 ) =>
            requests[r].pc \notin {"backoff", "rateWait"}

\* C7: every entry of pendingRequests is an unsettled request for its key;
\* once a request has settled its key has no entry; a rejected request
\* surfaces an error and the next call for its key starts a fresh request;
\* a resolved request has stored its list in the cache.
C7_StateMachine ==
    /\ \A k \in DOMAIN pendingRequests :
          /\ pendingRequests[k] \in DOMAIN requests
          /\ requests[pendingRequests[k]].key = k
    /\ settled # <<>> =>
          /\ burst = <<>> => TheSettled.key \notin DOMAIN pendingRequests
          /\ TheSettled.pc = "rejected" =>
                /\ TheSettled.error # NoError
                /\ \A i \in 1..Len(burst) :
                      ( /\ burst[i].key = TheSettled.key
                        /\ \A j \in 1..(i - 1) :
                              burst[j].key # TheSettled.key ) =>
                          /\ burst[i].kind = "started"
                          /\ burst[i].req \in DOMAIN requests
                          /\ requests[burst[i].req].issued <= 1
                          /\ requests[burst[i].req].retryCount = 0
          /\ TheSettled.pc = "resolved" =>
                /\ TheSettled.key \in DOMAIN cache
                /\ cache[TheSettled.key].pois = TheSettled.result

\* A request was rejected and the next call for its key started a request.
C7_Witness ==
    /\ settled # <<>>
    /\ TheSettled.pc = "rejected"
    /\ burst # <<>>
    /\ burst[1].key = TheSettled.key
    /\ burst[1].kind = "started"

\* C8: a call whose coordinates round to the 3-decimal cell of a fetch that
\* succeeded less than CACHE_DURATION ago, with the same radius, and whose
\* entry was not purged by clearCache, returns the list that fetch stored
\* and neither starts a request nor issues a provider request.
C8_CacheHit ==
    [][ \A s \in successes :
          ( /\ lastCall' # <<>>
            /\ SameCell(s, lastCall'[1])
            /\ Now - s.at < 300000 ) =>
              /\ lastCall'[1].kind = "cache"
              /\ lastCall'[1].value = s.pois
              /\ UNCHANGED <<requests, pendingRequests, lastRequestTime,
                             lastIssuedAt, cache>>
      ]_vars

\* A call at (48.4996, 2.3) was served the list that a fetch at (48.5, 2.3)
\* stored some time before.
C8_Witness ==
    /\ lastCall # <<>>
    /\ TheCall.kind = "cache"
    /\ TheCall.lat = 484996
    /\ \E s \in successes :
          s.lat = 485000 /\ s.at < 0 /\ TheCall.value = s.pois

\* C9: getCacheStats reports an entry valid exactly when its age is below
\* 300000 ms, and a call for a key with an entry returns the entry when its
\* age is below 300000 ms and otherwise starts or joins a provider fetch.
C9_TTL ==
    /\ \A e \in getCacheStats(Now).entries : e.valid <=> e.age < 300000
    /\ ( /\ lastCall # <<>>
         /\ TheCall.kind # "invalid"
         /\ TheCall.key \in DOMAIN cache ) =>
          IF Now - cache[TheCall.key].timestamp < 300000
          THEN TheCall.kind = "cache"
          ELSE /\ TheCall.kind \in {"started", "joined"}
               /\ TheCall.req \in DOMAIN requests
               /\ requests[TheCall.req].key = TheCall.key

\* A call for a key whose entry had expired started a provider fetch, and
\* getCacheStats reports the entry as not valid.
C9_Witness ==
    /\ lastCall # <<>>
    /\ TheCall.kind = "started"
    /\ TheCall.key \in DOMAIN cache
    /\ \E e \in getCacheStats(Now).entries :
          e.key = TheCall.key /\ ~e.valid /\ e.age >= 300000

\* C10: a call with a radius outside (0, 100000], a latitude outside
\* [-90, 90] or a longitude outside [-180, 180] is rejected with an error,
\* creates no request, issues no provider request and leaves the cache,
\* pendingRequests and lastRequestTime unchanged.
C10_InvalidInput ==
    [][ ( /\ lastCall' # <<>>
          /\ \/ lastCall'[1].radius <= 0
             \/ lastCall'[1].radius > 100000
             \/ lastCall'[1].lat < -900000
             \/ lastCall'[1].lat > 900000
             \/ lastCall'[1].lng < -1800000
             \/ lastCall'[1].lng > 1800000 ) =>
          /\ lastCall'[1].kind = "invalid"
          /\ lastCall'[1].error # NoError
          /\ UNCHANGED <<cache, pendingRequests, lastRequestTime, requests,
                         lastIssuedAt, issueGap>>
      ]_vars

\* An invalid call was rejected while a request was pending.
C10_Witness ==
    /\ lastCall # <<>>
    /\ TheCall.kind = "invalid"
    /\ pendingRequests # EmptyMap

\* C11: when a refresh of _updatePOIs fails, the cache holds the lists it
\* held when the refresh began, and lastFetchedPOIs and the renderer's
\* activePOIs are what they were when it began.
C11_StaleOnFailure ==
    refresh = "failed" =>
        /\ CachedLists = atCall.cache
        /\ lastFetchedPOIs = atCall.lastFetchedPOIs
        /\ activePOIs = atCall.activePOIs

\* A refresh failed while a list was displayed and the cache held an entry.
C11_Witness ==
    /\ refresh = "failed"
    /\ lastFetchedPOIs # <<>>
    /\ activePOIs # <<>>
    /\ cache # EmptyMap

\* The record has coordinates: its own, or those of its center.
HasCoordinates(e) ==
    \/ e.lat # <<>> /\ e.lon # <<>>
    \/ e.center # <<>> /\ e.center[1].lat # <<>> /\ e.center[1].lon # <<>>

\* The record has a name that is not empty.
HasName(e) == \E i \in 1..Len(e.tags) :
                 e.tags[i][1] = "name" /\ e.tags[i][2] # <<"">>

\* The record has a wikipedia or wikidata tag that is not empty.
HasReference(e) ==
    \E i \in 1..Len(e.tags) :
        /\ e.tags[i][1] \in {"wikipedia", "wikidata"} \cup LangWikiKeys
        /\ e.tags[i][2] # <<"">>

\* C12: _parseElement returns a POI only for a record with coordinates, a
\* name and a wikipedia or wikidata tag, and returns null for every record
\* that lacks one of the three.
C12_RecordAcceptance ==
    parsed # <<>> =>
        /\ parsed[1].poi # <<>> =>
              HasCoordinates(element) /\ HasName(element)
              /\ HasReference(element)
        /\ ~(HasCoordinates(element) /\ HasName(element)
             /\ HasReference(element)) =>
              ~parsed[1].threw /\ parsed[1].poi = <<>>

\* The record has tags, a reference and coordinates within range.
WellFormed(e) ==
    /\ HasCoordinates(e)
    /\ HasReference(e)
    /\ \A lat \in {e.lat} \cup { e.center[i].lat : i \in DOMAIN e.center } :
          lat # <<>> => lat[1] >= -900000 /\ lat[1] <= 900000

\* C13: a request whose response was read resolves, whatever malformed
\* records the response holds, with a list that has the POI of every
\* well-formed record of the response, and that list is cached.
C13_PerRecordRecovery ==
    (settled # <<>> /\ TheSettled.elements # <<>>) =>
        /\ TheSettled.pc = "resolved"
        /\ \A i \in 1..Len(TheSettled.elements) :
              WellFormed(TheSettled.elements[i]) =>
                  \E j \in 1..Len(TheSettled.result) :
                      TheSettled.result[j].id =
                          << TheSettled.elements[i].type,
                             TheSettled.elements[i].id >>
        /\ TheSettled.key \in DOMAIN cache
        /\ cache[TheSettled.key].pois = TheSettled.result

\* The distances of the list ascend.
Ascending(pois) ==
    \A i \in 1..(Len(pois) - 1) : pois[i].distance <= pois[i + 1].distance

\* C14: every list stored in the cache, every list a request resolves with
\* (for the call that started it and for the calls that joined it) and
\* every list served from the cache is sorted ascending by distance.
C14_Sorted ==
    /\ \A k \in DOMAIN cache : Ascending(cache[k].pois)
    /\ (settled # <<>> /\ TheSettled.pc = "resolved") =>
          Ascending(TheSettled.result)
    /\ (lastCall # <<>> /\ TheCall.kind = "cache") => Ascending(TheCall.value)

\* A response that lists the farther record first was served from the cache
\* with the nearer POI first.
C14_Witness ==
    /\ lastCall # <<>>
    /\ TheCall.kind = "cache"
    /\ Len(TheCall.value) = 2
    /\ TheCall.value[1].name = <<"Near">>
    /\ TheCall.value[2].name = <<"Far">>
    /\ TheCall.value[1].distance < TheCall.value[2].distance

\* C15: when clearCache returns the cache has no entry and getCacheStats
\* reports size 0; a call for a key that clearCache removed, and that has
\* neither been cached again nor has a request in flight, starts a request,
\* whose provider request is issued at once or after the wait of the rate
\* limit.
C15_ClearCache ==
    [][ /\ purged' # purged =>
              /\ cache' = EmptyMap
              /\ getCacheStats(Now)'.size = 0
              /\ getCacheStats(Now)'.entries = {}
        /\ ( /\ lastCall' # <<>>
             /\ lastCall'[1].key \in purged
             /\ lastCall'[1].key \notin DOMAIN cache
             /\ lastCall'[1].key \notin DOMAIN pendingRequests ) =>
              /\ lastCall'[1].kind = "started"
              /\ lastCall'[1].req \in DOMAIN requests' \ DOMAIN requests
              /\ \/ /\ requests'[lastCall'[1].req].pc = "fetching"
                    /\ requests'[lastCall'[1].req].issued = 1
                    /\ lastIssuedAt' = Now
                 \/ /\ requests'[lastCall'[1].req].pc = "rateWait"
                    /\ requests'[lastCall'[1].req].deadline > Now
      ]_vars

\* After clearCache removed the entry of a key, a call for that key started
\* a request while the cache was empty.
C15_Witness ==
    /\ lastCall # <<>>
    /\ TheCall.kind = "started"
    /\ TheCall.key \in purged
    /\ getCacheStats(Now).size = 0
    /\ TheCall.req \in DOMAIN requests
    /\ requests[TheCall.req].pc = "fetching"

\* C16: no provider attempt runs for longer than REQUEST_TIMEOUT, whether
\* it waits for the response or reads its body, and a request is not
\* rejected with the abort of the timeout before it has made three
\* attempts.
C16_HardTimeout ==
    /\ \A r \in DOMAIN attemptAge : attemptAge[r] <= 10000
    /\ (settled # <<>> /\ TheSettled.error = AbortError) =>
          TheSettled.issued >= 3

\* C17: the list returned by _resolveCollisions has no two labels that are
\* closer than the collision footprint on both axes: no pair with
\* |x1 - x2| < collisionWidth and |y1 - y2| < collisionHeight.
C17_NoOverlap ==
    frame = "resolved" =>
        \A i, j \in 1..Len(finalPOIs) :
            i < j =>
                ~( /\ Abs(finalPOIs[i].x * 100 - finalPOIs[j].x * 100)
                         < collisionWidth(finalPOIs[i].scale)
                   /\ Abs(finalPOIs[i].y - finalPOIs[j].y)
                         < collisionHeight(finalPOIs[i].scale) )

\* Three labels were placed, one of them moved off its projected height to
\* avoid another.
C17_Witness ==
    /\ frame = "resolved"
    /\ Len(finalPOIs) = 3
    /\ \E i \in 1..3, j \in 1..Len(visiblePOIs) :
          /\ visiblePOIs[j].poiId = finalPOIs[i].poiId
          /\ finalPOIs[i].y # visiblePOIs[j].y * 100

\* The order of the slot search: 0, +1, -1, +2, -2, ..., +12, -12.
SlotOrder ==
    <<0, 1, -1, 2, -2, 3, -3, 4, -4, 5, -5, 6, -6, 7, -7, 8, -8, 9, -9,
      10, -10, 11, -11, 12, -12>>

\* The height of the slot of the n-th offset of SlotOrder for a POI
\* projected at pixel height y, in 1/100 pixel: steps of the label height
\* plus a gap of 2 pixels.
SlotY(y, n, scale) == y * 100 + SlotOrder[n] * (90 * scale + 200)

\* The slot lies within the vertical margins of a screen.
WithinMargin(slotY, height, scale) ==
    slotY >= 6000 /\ slotY <= height * 100 - 90 * scale - 12000

\* The labels of finalPOIs that belong to the POIs ranked before the i-th
\* of displayPOIs.
PlacedBefore(i) ==
    { l \in 1..Len(finalPOIs) :
        \E h \in 1..(i - 1) : displayPOIs[h].poiId = finalPOIs[l].poiId }

\* The n-th slot of the i-th POI of displayPOIs qualifies: it is within the
\* margin and collides with no label placed before.
Qualifies(i, n, scale) ==
    LET slotY == SlotY(displayPOIs[i].y, n, scale)
    IN  /\ WithinMargin(slotY, screenHeight, scale)
        /\ \A l \in PlacedBefore(i) :
              ~( /\ Abs(displayPOIs[i].x * 100 - finalPOIs[l].x * 100)
                       < 180 * scale
                 /\ Abs(slotY - finalPOIs[l].y) < 81 * scale )

\* C18: every POI of the frame, taken in rank order, is placed in the first
\* slot of the order 0, +1, -1, +2, -2, ... that lies within the vertical
\* margin and collides with no label placed before it, at its projected
\* column; a POI without such a slot is absent from the output.
C18_SlotSearch ==
    frame = "resolved" =>
        \A i \in 1..Len(displayPOIs) :
            LET scale == DensityScale(Len(displayPOIs))
                good == { n \in 1..Len(SlotOrder) : Qualifies(i, n, scale) }
                labels == { l \in 1..Len(finalPOIs) :
                              finalPOIs[l].poiId = displayPOIs[i].poiId }
            IN  IF good = {}
                THEN labels = {}
                ELSE /\ Cardinality(labels) = 1
                     /\ \A l \in labels :
                           /\ finalPOIs[l].x = displayPOIs[i].x
                           /\ \E n \in good :
                                 /\ \A m \in good : n <= m
                                 /\ finalPOIs[l].y =
                                       SlotY(displayPOIs[i].y, n, scale)

\* A POI was placed one step below its projected height, another found no
\* slot and is absent.
C18_Witness ==
    /\ frame = "resolved"
    /\ \E i \in 1..Len(displayPOIs), l \in 1..Len(finalPOIs) :
          /\ finalPOIs[l].poiId = displayPOIs[i].poiId
          /\ finalPOIs[l].y = displayPOIs[i].y * 100 + 9200
    /\ \E i \in 1..Len(displayPOIs) :
          \A l \in 1..Len(finalPOIs) :
              finalPOIs[l].poiId # displayPOIs[i].poiId

\* C19: every label of the output has 60 <= y <= screenHeight - labelHeight
\* - 120, and on a screen too short for such a y the output is empty.
C19_VerticalMargin ==
    frame = "resolved" =>
        /\ \A l \in 1..Len(finalPOIs) :
              /\ finalPOIs[l].y >= 6000
              /\ finalPOIs[l].y <=
                    screenHeight * 100 - 90 * finalPOIs[l].scale - 12000
        /\ screenHeight * 100 - 90 * DensityScale(Len(displayPOIs)) - 12000
              < 6000 => finalPOIs = <<>>

\* A label was placed on the lower margin itself, at y = screenHeight -
\* labelHeight - 120, after the slot below its POI was skipped.
C19_Witness ==
    /\ frame = "resolved"
    /\ \E l \in 1..Len(finalPOIs) :
          /\ finalPOIs[l].y = screenHeight * 100 - 9000 - 12000
          /\ \E i \in 1..Len(displayPOIs) :
                /\ displayPOIs[i].poiId = finalPOIs[l].poiId
                /\ displayPOIs[i].y * 100 # finalPOIs[l].y

\* The rank of a POI: its place in displayPOIs.
RankOf(poiId) ==
    CHOOSE i \in 1..Len(displayPOIs) : displayPOIs[i].poiId = poiId

\* C20: every label that blocked a slot of a POI, whether the POI was then
\* dropped or placed in another slot, belongs to a POI ranked before it,
\* whose distance is smaller or equal.
C20_FarthestDropped ==
    frame = "resolved" =>
        \A e \in 1..Len(frameLog) :
            \A b \in frameLog[e].blockers :
                /\ RankOf(b) < RankOf(frameLog[e].poiId)
                /\ displayPOIs[RankOf(b)].distance <= frameLog[e].distance

\* A POI was dropped though it came before its nearer blocker in the Map.
C20_Witness ==
    /\ frame = "resolved"
    /\ \E e \in 1..Len(frameLog) :
          /\ ~frameLog[e].foundSlot
          /\ \E b \in frameLog[e].blockers :
                /\ b > frameLog[e].poiId
                /\ displayPOIs[RankOf(b)].distance < frameLog[e].distance

\* The entries of activePOIs that the frame of the state keeps: within the
\* distance threshold and projected onto the screen.
Survivors ==
    { j \in 1..Len(activePOIs) :
        /\ activePOIs[j].distance <= maxVisibleDistance
        /\ projectToScreen(userPosition[1],
                           <<activePOIs[j].lat, activePOIs[j].lng>>,
                           deviceOrientation[1].heading,
                           deviceOrientation[1].pitch,
                           ScreenDimensions.width, screenHeight,
                           horizontalFOV, verticalFOV).pos # <<>> }

\* C21: the output of a frame holds at most maxLabels labels, each of a POI
\* that survived the distance cull and the projection and that has fewer
\* than maxLabels survivors nearer than itself, with the maxLabels assigned
\* last before the tick.
C21_LabelCap ==
    frame = "resolved" =>
        /\ Len(finalPOIs) <= maxLabels
        /\ \A i \in 1..Len(finalPOIs) :
              /\ \E j \in Survivors : activePOIs[j].id = finalPOIs[i].poiId
              /\ Cardinality({ j \in Survivors :
                                 activePOIs[j].distance
                                    < finalPOIs[i].distance }) < maxLabels

\* C21: after maxLabels was set to 1, a frame with two survivors shows the
\* nearer one only.
C21_Witness ==
    /\ frame = "resolved"
    /\ maxLabels = 1
    /\ Cardinality(Survivors) = 2
    /\ Len(finalPOIs) = 1
    /\ \A j \in Survivors : finalPOIs[1].distance <= activePOIs[j].distance

\* C22: the labels of a frame are emitted in ascending order of distance, and
\* the z-index strictly decreases along that order: of any two labels of a
\* frame the earlier one is no farther and has the strictly higher z-index.
C22_EmitOrder ==
    frame = "resolved" =>
        LET labels == Labels(finalPOIs)
        IN  \A i, j \in 1..Len(labels) :
               i < j => /\ labels[i].distance <= labels[j].distance
                        /\ labels[i].zIndex > labels[j].zIndex

\* A frame that emits three labels at three different distances.
C22_Witness ==
    /\ frame = "resolved"
    /\ Len(finalPOIs) >= 3
    /\ LET labels == Labels(finalPOIs)
       IN  /\ labels[1].distance < labels[2].distance
           /\ labels[2].distance < labels[3].distance
           /\ labels[1].zIndex > labels[3].zIndex

\* The distance in centimetres from the position the renderer holds to the
\* active POI of an id.
CurrentDistance(poiId) ==
    LET poi == activePOIs[CHOOSE j \in 1..Len(activePOIs) :
                              activePOIs[j].id = poiId]
    IN  calculateDistance(userPosition[1][1], userPosition[1][2],
                          poi.lat, poi.lng).cm

\* C23: no label of a frame belongs to a POI that is farther from the
\* position the renderer holds at the frame than the max visible distance,
\* also when the position has changed since the POIs were fetched.
C23_DistanceCull ==
    frame = "resolved" =>
        \A i \in 1..Len(finalPOIs) :
            CurrentDistance(finalPOIs[i].poiId) <= maxVisibleDistance * 100

\* The signed angle from a heading to a bearing, in hundredths of a degree,
\* normalized into (-180, 180] degrees.
SignedOffset(bearing, heading) ==
    LET turn == (bearing - heading) % 36000
    IN  IF turn > 18000 THEN turn - 36000 ELSE turn

\* C24: projectToScreen returns null exactly when the absolute signed offset
\* between the bearing to the target and the heading, normalized into
\* (-180, 180], exceeds half the horizontal field of view, for every heading
\* (also negative and 360 or more) and every bearing.
C24_HorizontalCull ==
    screenPos # <<>> =>
        (screenPos[1] = <<>>
            <=> Abs(SignedOffset(projected.bearing, projected.heading)) * 2
                    > projected.hFOV * 100)

\* A heading of two turns and 30 degrees, a target due north and a field of
\* view of 60 degrees: the target is on the edge of the view and is placed.
C24_Witness ==
    /\ projected.heading = 75000
    /\ projected.bearing = 0
    /\ projected.hFOV = 60
    /\ screenPos # <<>>
    /\ screenPos[1] # <<>>
    /\ screenPos[1][1].x = 0

\* Vertical fields of view: the default of the renderer and a wider one.
VerticalFieldsOfView == {verticalFOV, 60}

\* C25: the pitch of the device and the vertical field of view are no input
\* of the visibility: with any other pitch and vertical field of view,
\* projectToScreen and isInViewFrustum return for every active POI what they
\* return with the ones of the frame, and the frame places the same POIs at
\* the same x and y.
C25_PitchIgnored ==
    frame = "resolved" =>
        \A pitch \in Pitches, vFOV \in VerticalFieldsOfView :
            /\ ProjectPOIs(activePOIs, userPosition[1],
                           [deviceOrientation[1] EXCEPT !.pitch = pitch],
                           maxVisibleDistance, screenHeight) = visiblePOIs
            /\ LaidOut(visiblePOIs, maxLabels, screenHeight).resolved.result
                  = finalPOIs
            /\ \A j \in 1..Len(activePOIs) :
                  LET poiLocation == <<activePOIs[j].lat, activePOIs[j].lng>>
                      heading == deviceOrientation[1].heading
                  IN  /\ projectToScreen(userPosition[1], poiLocation,
                                         heading, pitch,
                                         ScreenDimensions.width, screenHeight,
                                         horizontalFOV, vFOV)
                           = projectToScreen(userPosition[1], poiLocation,
                                             heading,
                                             deviceOrientation[1].pitch,
                                             ScreenDimensions.width,
                                             screenHeight, horizontalFOV,
                                             verticalFOV)
                      /\ isInViewFrustum(userPosition[1], poiLocation,
                                         heading, pitch, horizontalFOV, vFOV,
                                         maxVisibleDistance)
                           = isInViewFrustum(userPosition[1], poiLocation,
                                             heading,
                                             deviceOrientation[1].pitch,
                                             horizontalFOV, verticalFOV,
                                             maxVisibleDistance)

\* A frame with the device tilted by 60 degrees, more than the whole vertical
\* field of view, that places two labels.
C25_Witness ==
    /\ frame = "resolved"
    /\ deviceOrientation[1].pitch = 60
    /\ Len(finalPOIs) = 2
    /\ \E j \in 1..Len(activePOIs) :
          isInViewFrustum(userPosition[1],
                          <<activePOIs[j].lat, activePOIs[j].lng>>,
                          deviceOrientation[1].heading, 60, horizontalFOV,
                          verticalFOV, maxVisibleDistance)

\* The loop of the renderer is stopped, or runs with exactly one animation
\* frame requested, the one animationFrameId names.
OneLoop ==
    /\ Cardinality(scheduled) <= 1
    /\ isRendering => scheduled = {animationFrameId}
    /\ ~isRendering => scheduled = {} /\ animationFrameId = 0

\* A step of start() on a running loop changes nothing, and a step from a
\* stopped loop that is not start() runs no frame update.
DriverStep ==
    /\ (isRendering /\ op' \in {"start", "restart"}) =>
           UNCHANGED <<loopVars, sensorVars, settingVars, visiblePOIs,
                       displayPOIs, finalPOIs, frameLog>>
    /\ (~isRendering /\ op' \notin {"start", "restart"}) =>
           /\ frame' \notin {"resolved", "skipped"}
           /\ UNCHANGED <<visiblePOIs, displayPOIs, finalPOIs, frameLog>>
    /\ op' = "restart" => isRendering' /\ Cardinality(scheduled') = 1

\* C26: under every interleaving of start(), stop(), destroy() and the
\* animation-frame callbacks at most one callback is pending, start() on a
\* running loop changes nothing, no frame update runs while the loop is
\* stopped, and a stop() followed by start() leaves exactly one loop.
C26_FrameDriver == []OneLoop /\ [][DriverStep]_vars

\* start() right after stop(): the loop runs again, with one callback pending
\* and labels on the screen from before the stop().
C26_Witness ==
    /\ op = "restart"
    /\ isRendering
    /\ scheduled = {animationFrameId}
    /\ animationFrameId # 0
    /\ Len(finalPOIs) > 0

\* A step that runs _updateFrame.
Ticked == frame' \in {"resolved", "skipped"}

\* A frame update is computed from the position, the orientation and the
\* settings the renderer holds at the tick; with a sensor missing it ends
\* with the output as it was and the loop goes on; a sensor event runs no
\* frame update.
TickStep ==
    /\ frame' = "resolved" =>
           /\ userPosition # <<>> /\ deviceOrientation # <<>>
           /\ visiblePOIs' = ProjectPOIs(activePOIs, userPosition[1],
                                         deviceOrientation[1],
                                         maxVisibleDistance, screenHeight)
    /\ frame' = "skipped" =>
           /\ userPosition = <<>> \/ deviceOrientation = <<>>
           /\ UNCHANGED <<visiblePOIs, displayPOIs, finalPOIs, frameLog>>
    /\ Ticked =>
           /\ Now - lastUpdateTime >= updateInterval
           /\ lastUpdateTime' = Now
           /\ isRendering' /\ scheduled' = {animationFrameId'}
           /\ UNCHANGED sensorVars
    /\ ~UNCHANGED sensorVars =>
           /\ ~Ticked
           /\ UNCHANGED <<loopVars, visiblePOIs, displayPOIs, finalPOIs,
                          frameLog>>

\* C27: two consecutive frame updates are at least updateInterval apart
\* however often sensor events arrive, every update uses the position and
\* the orientation delivered last, and a tick with the position or the
\* orientation missing ends without output and without waiting.
C27_FrameCadence == [](frameGap >= updateInterval) /\ [][TickStep]_vars

\* A frame update after the position has changed to the second position of
\* the model: the labels are projected from there.
C27_Witness ==
    /\ frame = "resolved"
    /\ frameGap = updateInterval
    /\ lastUpdateTime = Now
    /\ userPosition = << <<485020, 23000>> >>
    /\ Len(visiblePOIs) = 2
    /\ visiblePOIs = ProjectPOIs(activePOIs, <<485020, 23000>>,
                                 deviceOrientation[1], maxVisibleDistance,
                                 screenHeight)
    /\ visiblePOIs # ProjectPOIs(activePOIs, <<485000, 23000>>,
                                 deviceOrientation[1], maxVisibleDistance,
                                 screenHeight)

\* C28: reset() clears the heading window, the pitch filter, the roll filter
\* and the calibration offset: right after it the smoother is in the state
\* of a new instance and returns for every update what a new one returns.
C28_ResetClearsAll ==
    smootherOp = "reset" =>
        /\ Smoother = NewSmoother
        /\ \A orientation \in RawOrientations :
              UpdatedSmoother(Smoother, orientation).returned
                 = UpdatedSmoother(NewSmoother, orientation).returned

\* C29: the heading update() passes to the heading filter, the raw heading
\* plus the calibration offset, is in [0, 360), for every offset set through
\* setCalibrationOffset.
C29_CalibrationWrap ==
    smootherOp = "update" =>
        LET passed == headingFilter[Len(headingFilter)]
        IN  0 <= passed /\ passed < 360

\* The window holds readings of 359 and 1 degrees in alternation.
Alternating ==
    /\ \A i \in 1..Len(headingFilter) : headingFilter[i] \in {359, 1}
    /\ \A i \in 1..(Len(headingFilter) - 1) :
          headingFilter[i] # headingFilter[i + 1]

\* C30: fed alternating readings of 359 and 1 degrees, the heading filter
\* returns headings within one degree of north, and every heading it returns
\* is in [0, 360) (in millionths of a degree).
C30_WraparoundMean ==
    smootherOp = "update" =>
        LET out == smoothed[1].heading
        IN  /\ 0 <= out /\ out < 360000000
            /\ Alternating => out <= 1000000 \/ out >= 359000000

\* C31: the labels of a frame share one scale, the one of the density tier
\* of the candidates of the frame (1.0 up to 10, 0.9 for 11 to 20, 0.75
\* above 20), so that each tier is reached under the default cap of 20
\* labels.
C31_DensityTiers ==
    frame = "resolved" =>
        \A i \in 1..Len(finalPOIs) :
            finalPOIs[i].scale = DensityScale(Len(visiblePOIs))

\* A POI carries the distance and the bearing measured from a location.
MeasuredFrom(poi, lat, lng) ==
    /\ poi.distance
          = MathRound(calculateDistance(lat, lng, poi.lat, poi.lng).cm, 100)
    /\ poi.bearing
          = MathRound(calculateBearing(lat, lng, poi.lat, poi.lng).cdeg, 100)

\* C32: every POI a call of fetchNearbyPOIs(lat, lng, radius) returns, also
\* from the cache, carries the distance and the bearing measured from the
\* location passed in that call.
C32_DistancePerCall ==
    (lastCall # <<>> /\ TheCall.kind = "cache") =>
        \A i \in 1..Len(TheCall.value) :
            MeasuredFrom(TheCall.value[i], TheCall.lat, TheCall.lng)

\* A step of the throttled handler: an event that arrives while inThrottle
\* is set changes nothing, an event that runs the handler arrives while it
\* is clear, the timer runs nothing that was held back, and the smoother is
\* updated by the events that run the handler only.
ThrottleStep ==
    /\ geoOp' = "discarded" =>
           inThrottle /\ UNCHANGED <<smootherVars, throttleVars>>
    /\ geoOp' \in {"smoothed", "ignored"} =>
           /\ ~inThrottle
           /\ inThrottle' /\ throttleTimer' = << ThrottleLimit >>
    /\ geoOp' = "smoothed" =>
           smootherOp' = "update" /\ Len(headingFilter') > 0
    /\ geoOp' \in {"timer", "time"} => UNCHANGED smootherVars
    /\ ~UNCHANGED smootherVars => geoOp' = "smoothed"

\* C33: the throttled orientation handler runs the smoother for the first
\* event at once and then at most once per 50 ms: two runs are at least the
\* limit apart, and an event that arrives inside the window is discarded,
\* not deferred, and never reaches the smoother.
C33_SensorThrottle ==
    [](executionGap >= ThrottleLimit) /\ [][ThrottleStep]_vars

\* An event arrives 30 ms after the second run of the handler and is
\* discarded: the window of the smoother holds the two headings that ran.
C33_Witness ==
    /\ geoOp = "discarded"
    /\ inThrottle
    /\ throttleTimer = << 20 >>
    /\ sinceExecution = 30
    /\ Len(headingFilter) = 2

\* C38: when stop() returns, the orientation listener that start() or
\* startWithPosition() added is no longer registered on window.
C38_StopEndsOrientation ==
    geoOp = "stop" => windowListeners = {}

\* The position watches the Geolocator no longer holds the id of.
LeakedWatches == watches \ {positionWatchId}

\* C39: under every interleaving of start(), startWithPosition(), stop() and
\* the callbacks of the browser the Geolocator has at most one active
\* position watch, and when stop() was the last call and no callback is
\* pending, no watch is active and isTracking is false.
C39_SingleWatch ==
    /\ Cardinality(watches) <= 1
    /\ LeakedWatches = {}
    /\ (geoOp = "stop" /\ locating = 0) => watches = {} /\ ~isTracking

\* The application awaits at most one request of the detector, which is the
\* only unsettled one, and isFetchingPOIs is set exactly while it does.
OneFetch ==
    /\ Cardinality(DOMAIN requests) <= 1
    /\ isFetchingPOIs <=> awaited # 0
    /\ awaited # 0 => DOMAIN requests = {awaited}
    /\ awaited = 0 => DOMAIN requests = {}
    /\ refresh \in {"shown", "failed"} => ~isFetchingPOIs

\* A step in which _updatePOIs starts a fetch is taken with no fetch in
\* progress and at least MinFetchInterval after the start of the one before.
FetchStep ==
    ncalls' # ncalls =>
        /\ ~isFetchingPOIs
        /\ awaited = 0
        /\ Now - lastPOIFetchTime >= MinFetchInterval
        /\ lastPOIFetchTime' = Now

\* C34: under every interleaving of the callers of _updatePOIs and the
\* events of the detector at most one fetch of _updatePOIs is in progress,
\* two fetches it starts are at least 5 s apart, and isFetchingPOIs is false
\* whenever none is in progress, after success and after failure.
C34_FetchGuard == []OneFetch /\ [][FetchStep]_vars

\* A second refresh has failed, more than 5 s after the first one began:
\* the flag is clear and no request is left.
C34_Witness ==
    /\ refresh = "failed"
    /\ ncalls = 2
    /\ ~isFetchingPOIs
    /\ awaited = 0
    /\ DOMAIN requests = {}
    /\ lastFetchedPOIs # <<>>

\* C35: with fair timers and a provider that ends every attempt, every
\* request promise of fetchNearbyPOIs settles, so that no caller waits for
\* ever on a pending entry, and pendingRequests is empty whenever no request
\* is unsettled.
C35_EverySettles ==
    /\ \A r \in 1..MaxCalls :
          (r \in DOMAIN requests) ~> (r \notin DOMAIN requests)
    /\ [](DOMAIN requests = {} => DOMAIN pendingRequests = {})

\* A request was rejected after its fourth attempt failed: no request is
\* unsettled and no entry is pending.
C35_Witness ==
    /\ settled # <<>>
    /\ TheSettled.pc = "rejected"
    /\ TheSettled.issued = 4
    /\ DOMAIN requests = {}
    /\ DOMAIN pendingRequests = {}

\* C36: under every interleaving of frames and fade-out timers, every label
\* element attached to the container is the one registered in labelElements
\* for its POI id, at most one label element per POI id is attached, and no
\* fade-out timer removes the registration of a label created after the
\* timer was scheduled.
C36_LabelRegistry ==
    /\ \A e \in container :
          e.poiId \in DOMAIN labelElements /\ labelElements[e.poiId] = e.id
    /\ \A e1, e2 \in container : e1.poiId = e2.poiId => e1 = e2
    /\ (lastFade # <<>> /\ lastFade[1].removed # <<>>) =>
          lastFade[1].removed[1] <= lastFade[1].timer.mark

\* C37: one lookup issues at most this.maxRetries + 1 fetch() calls, four
\* when the client was constructed without options.maxRetries, whatever the
\* sequence of rate-limit responses, network failures and bad bodies.
C37_RetryBound ==
    /\ issued <= maxRetries + 1
    /\ lookup \in {"resolved", "rejected"} => Len(outcomes) <= issued

\* A lookup of a default client was rejected after four requests that ended
\* with a rate-limit response, a network failure, a bad body and a
\* rate-limit response.
C37_Witness ==
    /\ lookup = "rejected"
    /\ maxRetries = 3
    /\ issued = 4
    /\ outcomes = <<"rate limit", "network", "body", "rate limit">>

\* The coordinates a record carries: those of its center, else its own.
CarriedCoordinates(record) ==
    IF record.center # <<>>
    THEN <<record.center[1].lat, record.center[1].lon>>
    ELSE <<record.lat, record.lon>>

\* The record carries a latitude and a longitude, zero included, within
\* the ranges of the globe.
Located(record) ==
    LET c == CarriedCoordinates(record)
    IN  /\ c[1] # <<>> /\ c[2] # <<>>
        /\ c[1][1] >= -900000 /\ c[1][1] <= 900000
        /\ c[2][1] >= -1800000 /\ c[2][1] <= 1800000

\* The record carries a wikipedia or a wikidata tag that is not empty.
Referenced(record) ==
    \E key \in {"wikipedia", "wikidata"} :
        /\ TagGet(record.tags, key) # <<>>
        /\ TagGet(record.tags, key)[1] # <<"">>

\* C40: _parseElement returns a POI for every record that carries
\* coordinates, a latitude or longitude of 0 included, and a wikipedia or
\* wikidata tag; it drops a record only when it carries no coordinates or
\* neither reference.
C40_CompleteAcceptance ==
    (parsed # <<>> /\ Located(element) /\ Referenced(element)) =>
        parsed[1].poi # <<>>

====
